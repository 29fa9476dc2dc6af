------------------------ MODULE KconfigRules_proofs ------------------------
(***************************************************************************)
(* For any symbols and expressions: no rule by which expr.c simplifies an  *)
(* expression changes what expr_calc_value makes of it, nor does its       *)
(* recursion over whole expressions, which ends.                           *)
(*                                                                         *)
(* First each rule, on one level of an expression; then all expressions.   *)
(* The recursive operators of KconfigExpr are here functions on the set of *)
(* all expressions that satisfy the same equations.                        *)
(***************************************************************************)
EXTENDS KconfigRules, SequenceTheorems, WellFoundedInduction, TLAPS

-----------------------------------------------------------------------------
(* Expressions and their values.  E is any set of expressions that has the  *)
(* operands of each, and val what expr_calc_value gives for the values v of *)
(* the symbols.                                                             *)

Expressions(E) ==
    {Null} \cup {Sym(s) : s \in Symbols \cup Consts} \cup {Not(e) : e \in E}
    \cup {Two(op, e, f) : op \in Logical, e \in E, f \in E}
    \cup {Comp(op, s, t) : op \in DOMAIN Opposite, s \in Symbols, t \in Symbols \cup Consts}

(* Value of KconfigExpr, as a function on E.                               *)
Calculated(E, v, val) ==
    /\ E \subseteq Expressions(E)
    /\ v \in Assignments
    /\ val \in [E -> 0..2]
    /\ \A e \in E : val[e] = CASE e.op = "not" -> 2 - val[e.l]
                               [] e.op \in Logical -> LevelValue(e.op, val[e.l], val[e.r])
                               [] OTHER -> LeafValue(e, v)

Comparisons == {"=", "!=", "<", ">=", ">", "<="}

LEMMA OppositeDomain == DOMAIN Opposite = Comparisons
BY DEF Opposite, Comparisons

LEMMA Opposites ==
    /\ Opposite["="] = "!=" /\ Opposite["<"] = ">=" /\ Opposite[">"] = "<="
    /\ Opposite["!="] = "=" /\ Opposite[">="] = "<" /\ Opposite["<="] = ">"
    /\ Opposite \in [Comparisons -> Comparisons]
BY DEF Opposite, Comparisons

LEMMA Signs ==
    ASSUME NEW d \in Int
    PROVE  /\ Holds("=", d) <=> d = 0
           /\ Holds("!=", d) <=> d # 0
           /\ Holds("<", d) <=> d < 0
           /\ Holds(">=", d) <=> d >= 0
           /\ Holds(">", d) <=> d > 0
           /\ Holds("<=", d) <=> d <= 0
BY DEF Holds

(* What there is to know of an expression, by its operation.               *)
LEMMA Kinds ==
    ASSUME NEW E, NEW v, NEW val, Calculated(E, v, val), NEW e \in E
    PROVE  /\ e.op \in {"null", "sym", "not"} \cup Logical \cup Comparisons
           /\ e.op = "null" => e = Null
           /\ e.op = "sym" => e = Sym(e.s) /\ e.s \in Symbols \cup Consts
           /\ e.op = "not" => e = Not(e.l) /\ e.l \in E
           /\ e.op \in Logical => e = Two(e.op, e.l, e.r) /\ e.l \in E /\ e.r \in E
           /\ e.op \in Comparisons => e = Comp(e.op, e.s, e.t) /\ e.s \in Symbols /\ e.t \in Symbols \cup Consts
<1>1. e \in Expressions(E)
  BY DEF Calculated
<1>2. CASE e = Null
  BY <1>2 DEF Null, Logical, Comparisons
<1>3. CASE \E s \in Symbols \cup Consts : e = Sym(s)
  BY <1>3 DEF Sym, Logical, Comparisons
<1>4. CASE \E f \in E : e = Not(f)
  BY <1>4 DEF Not, Logical, Comparisons
<1>5. CASE \E op \in Logical, f \in E, g \in E : e = Two(op, f, g)
  BY <1>5 DEF Two, Logical, Comparisons
<1>6. CASE \E op \in Comparisons, s \in Symbols, t \in Symbols \cup Consts : e = Comp(op, s, t)
  BY <1>6 DEF Comp, Logical, Comparisons
<1> QED
  BY <1>1, <1>2, <1>3, <1>4, <1>5, <1>6, OppositeDomain DEF Expressions

LEMMA Values ==
    ASSUME NEW E, NEW v, NEW val, Calculated(E, v, val)
    PROVE  /\ \A e \in E : val[e] \in 0..2
           /\ Null \in E => val[Null] = 2
           /\ \A s : Sym(s) \in E => val[Sym(s)] = SymValue(s, v)
           /\ \A e : Not(e) \in E => val[Not(e)] = 2 - val[e]
           /\ \A op \in Logical : \A e, f : Two(op, e, f) \in E => val[Two(op, e, f)] = LevelValue(op, val[e], val[f])
           /\ \A op \in Comparisons : \A s, t :
                Comp(op, s, t) \in E => val[Comp(op, s, t)] = IF Holds(op, Difference(s, t, v)) THEN 2 ELSE 0
<1>1. \A e \in E : val[e] \in 0..2
  BY DEF Calculated
<1>2. Null \in E => val[Null] = 2
  BY DEF Calculated, Null, LeafValue, Logical
<1>3. ASSUME NEW s, Sym(s) \in E PROVE val[Sym(s)] = SymValue(s, v)
  <2>1. Sym(s).op = "sym" /\ Sym(s).s = s
    BY DEF Sym
  <2> QED
    BY <1>3, <2>1 DEF Calculated, LeafValue, Logical
<1>4. ASSUME NEW e, Not(e) \in E PROVE val[Not(e)] = 2 - val[e]
  <2>1. Not(e).op = "not" /\ Not(e).l = e
    BY DEF Not
  <2> QED
    BY <1>4, <2>1 DEF Calculated, Logical
<1>5. ASSUME NEW op \in Logical, NEW e, NEW f, Two(op, e, f) \in E
      PROVE  val[Two(op, e, f)] = LevelValue(op, val[e], val[f])
  <2>1. Two(op, e, f).op = op /\ Two(op, e, f).l = e /\ Two(op, e, f).r = f
    BY DEF Two
  <2> QED
    BY <1>5, <2>1 DEF Calculated, Logical
<1>6. ASSUME NEW op \in Comparisons, NEW s, NEW t, Comp(op, s, t) \in E
      PROVE  val[Comp(op, s, t)] = IF Holds(op, Difference(s, t, v)) THEN 2 ELSE 0
  <2>1. Comp(op, s, t).op = op /\ Comp(op, s, t).s = s /\ Comp(op, s, t).t = t
    BY DEF Comp
  <2> QED
    BY <1>6, <2>1 DEF Calculated, Logical, Comparisons, LeafValue
<1> QED
  BY <1>1, <1>2, <1>3, <1>4, <1>5, <1>6

(* A symbol and the constants.                                             *)
Number(c) == CASE c = "y" -> 2 [] c = "m" -> 1 [] c = "n" -> 0

LEMMA SymbolValues ==
    ASSUME NEW v \in Assignments
    PROVE  /\ \A s \in Symbols : v[s] \in 0..2 /\ SymValue(s, v) = v[s]
           /\ \A b \in Bools : v[b] # 1
           /\ \A c \in Consts : SymValue(c, v) = Number(c)
BY SymbolsAssumption DEF Assignments, Symbols, Consts, SymValue, Number

LEMMA Against ==
    ASSUME NEW E, NEW v, NEW val, Calculated(E, v, val), NEW s \in Symbols, NEW c \in Consts
    PROVE  /\ Comp("=", s, c) \in E => val[Comp("=", s, c)] = IF v[s] = Number(c) THEN 2 ELSE 0
           /\ Comp("!=", s, c) \in E => val[Comp("!=", s, c)] = IF v[s] = Number(c) THEN 0 ELSE 2
<1>1. v \in Assignments
  BY DEF Calculated
<1>2. Difference(s, c, v) = ByName(v[s]) - ByName(Number(c)) /\ v[s] \in 0..2 /\ Number(c) \in 0..2
  BY <1>1, SymbolValues DEF Difference, Number, Consts
<1>3. (Difference(s, c, v) = 0) = (v[s] = Number(c))
  BY <1>2 DEF ByName
<1> QED
  BY <1>3, Values DEF Holds, Comparisons

-----------------------------------------------------------------------------
(* Joining.                                                                *)

LEMMA ThirdIsThird ==
    ASSUME NEW e1, NEW e2, e1.t \in Consts, e2.t \in Consts, e1.t # e2.t
    PROVE  /\ Third(e1, e2) \in Consts /\ Third(e1, e2) \notin {e1.t, e2.t}
           /\ \A i \in 0..2 : i # Number(Third(e1, e2)) <=> i = Number(e1.t) \/ i = Number(e2.t)
<1>1. \E c \in Consts : c \notin {e1.t, e2.t}
  BY DEF Consts
<1>2. Third(e1, e2) \in Consts /\ Third(e1, e2) \notin {e1.t, e2.t}
  BY <1>1 DEF Third
<1> QED
  BY <1>2 DEF Consts, Number

(* The rules for a || b (expr.c:451-484): whatever the values of the       *)
(* symbols, the expression that replaces both operands has the value of    *)
(* both.                                                                   *)
THEOREM JoinOrKeeps ==
    ASSUME NEW E, NEW v, NEW val, Calculated(E, v, val), NEW e1 \in E, NEW e2 \in E,
           SameSymbol(e1, e2), JoinOr(e1, e2) # Null, JoinOr(e1, e2) \in E
    PROVE  val[JoinOr(e1, e2)] = LevelValue("or", val[e1], val[e2])
<1> DEFINE a == About(e1)
<1>1. v \in Assignments /\ a \in Symbols
  BY DEF Calculated, SameSymbol
<1>2. val[e1] \in 0..2 /\ val[e2] \in 0..2 /\ v[a] \in 0..2
  BY <1>1, SymbolValues, Values
<1>3. CASE a \in Tristates /\ Both(e1, e2, "=") /\ e1.t # e2.t /\ IsConst(e1.t) /\ IsConst(e2.t)
  <2>1. JoinOr(e1, e2) = Comp("!=", a, Third(e1, e2))
    BY <1>3 DEF JoinOr, Both
  <2>2. e1 = Comp("=", a, e1.t) /\ e2 = Comp("=", a, e2.t)
    BY <1>3, Kinds DEF Both, About, SameSymbol, Comparisons
  <2>3. val[e1] = (IF v[a] = Number(e1.t) THEN 2 ELSE 0) /\ val[e2] = (IF v[a] = Number(e2.t) THEN 2 ELSE 0)
    BY <1>1, <1>3, <2>2, Against DEF IsConst
  <2>4. val[JoinOr(e1, e2)] = (IF v[a] = Number(Third(e1, e2)) THEN 0 ELSE 2)
    BY <1>1, <1>3, <2>1, Against, ThirdIsThird DEF IsConst
  <2> QED
    BY <1>2, <1>3, <2>3, <2>4, ThirdIsThird DEF IsConst, LevelValue, Greatest
<1>4. CASE a \in Bools /\ \/ e1 = Not(e2) /\ e2.op = "sym"
                          \/ e2 = Not(e1) /\ e1.op = "sym"
  <2>1. JoinOr(e1, e2) = Sym("y")
    <3>1. a \notin Tristates
      BY <1>4, SymbolsAssumption
    <3> QED
      BY <1>4, <3>1 DEF JoinOr
  <2>2. val[JoinOr(e1, e2)] = 2
    BY <2>1, Values DEF SymValue
  <2>3. PICK s \in {e1, e2} : s = Sym(a) /\ {e1, e2} = {s, Not(s)}
    <3>1. CASE e1 = Not(e2) /\ e2.op = "sym"
      BY <3>1, Kinds DEF About, Not
    <3>2. CASE e2 = Not(e1) /\ e1.op = "sym"
      BY <3>2, Kinds DEF About, Not, Sym
    <3> QED
      BY <1>4, <3>1, <3>2
  <2>4. val[s] = v[a] /\ val[Not(s)] = 2 - v[a] /\ v[a] # 1
    BY <1>1, <1>4, <2>3, Values, SymbolValues
  <2> QED
    BY <1>2, <2>2, <2>3, <2>4 DEF LevelValue, Greatest
<1> QED
  BY <1>3, <1>4 DEF JoinOr

LEMMA WithSymbol ==
    ASSUME NEW E, NEW v, NEW val, Calculated(E, v, val), NEW e1 \in E, NEW e2 \in E,
           SameSymbol(e1, e2), NEW op \in {"=", "!="}, NEW c \in Consts, With(e1, e2, op, c)
    PROVE  LET a == About(e1)
               compared == IF (v[a] = Number(c)) = (op = "=") THEN 2 ELSE 0
           IN  LevelValue("and", val[e1], val[e2]) = Least(v[a], compared)
<1> DEFINE a == About(e1)
           compared == IF (v[a] = Number(c)) = (op = "=") THEN 2 ELSE 0
<1>1. v \in Assignments /\ a \in Symbols /\ About(e2) = a
  BY DEF Calculated, SameSymbol
<1>2. v[a] \in 0..2
  BY <1>1, SymbolValues
<1>3. {e1, e2} = {Sym(a), Comp(op, a, c)}
  <2>1. CASE e1.op = "sym" /\ e2.op = op /\ e2.t = c
    BY <1>1, <2>1, Kinds DEF About, Comparisons, SameSymbol
  <2>2. CASE e2.op = "sym" /\ e1.op = op /\ e1.t = c
    BY <1>1, <2>2, Kinds DEF About, Comparisons, SameSymbol
  <2> QED
    BY <2>1, <2>2 DEF With
<1>4. val[Sym(a)] = v[a] /\ val[Comp(op, a, c)] = compared
  <2>1. Sym(a) \in E /\ Comp(op, a, c) \in E
    BY <1>3
  <2> QED
    BY <1>1, <2>1, Values, SymbolValues, Against
<1>5. {val[e1], val[e2]} = {v[a], compared}
  BY <1>3, <1>4
<1> QED
  BY <1>2, <1>5 DEF LevelValue, Least

(* The rules for a && b (expr.c:517-579), the one whose comment says        *)
(* something else than its code (expr.c:561) included.                      *)
THEOREM JoinAndKeeps ==
    ASSUME NEW E, NEW v, NEW val, Calculated(E, v, val), NEW e1 \in E, NEW e2 \in E,
           SameSymbol(e1, e2), JoinAnd(e1, e2) # Null, JoinAnd(e1, e2) \in E
    PROVE  val[JoinAnd(e1, e2)] = LevelValue("and", val[e1], val[e2])
<1> DEFINE a == About(e1)
           Equation(e, f) == e.op = "=" /\ f.op = "!=" /\ IsConst(e.t) /\ IsConst(f.t)
           Decide(e, f) == IF e.t # f.t THEN Comp("=", a, e.t) ELSE Sym("n")
<1>1. v \in Assignments /\ a \in Symbols /\ About(e2) = a
  BY DEF Calculated, SameSymbol
<1>2. val[e1] \in 0..2 /\ val[e2] \in 0..2 /\ v[a] \in 0..2
  BY <1>1, SymbolValues, Values
<1>3. {"y", "m", "n"} \subseteq Consts /\ Number("y") = 2 /\ Number("m") = 1 /\ Number("n") = 0
  BY DEF Consts, Number
<1>4. CASE With(e1, e2, "=", "y")
  <2>1. JoinAnd(e1, e2) = Comp("=", a, "y")
    BY <1>4 DEF JoinAnd, With, Both
  <2> QED
    BY <1>1, <1>2, <1>3, <1>4, <2>1, WithSymbol, Against DEF Least
<1>5. CASE With(e1, e2, "!=", "n")
  <2>1. JoinAnd(e1, e2) = Sym(a)
    BY <1>5 DEF JoinAnd, With, Both
  <2>2. val[Sym(a)] = v[a]
    BY <1>1, <2>1, Values, SymbolValues
  <2> QED
    BY <1>1, <1>2, <1>3, <1>5, <2>1, <2>2, WithSymbol DEF Least
<1>6. CASE With(e1, e2, "!=", "m")
  <2>1. JoinAnd(e1, e2) = Comp("=", a, "y")
    BY <1>6 DEF JoinAnd, With, Both
  <2> QED
    BY <1>1, <1>2, <1>3, <1>6, <2>1, WithSymbol, Against DEF Least
<1>7. ASSUME NEW e \in E, NEW f \in E, About(e) = a, About(f) = a, Equation(e, f),
             JoinAnd(e1, e2) = Decide(e, f)
      PROVE  val[JoinAnd(e1, e2)] = Least(val[e], val[f]) /\ val[JoinAnd(e1, e2)] = Least(val[f], val[e])
  <2>1. e = Comp("=", a, e.t) /\ f = Comp("!=", a, f.t) /\ e.t \in Consts /\ f.t \in Consts
    BY <1>7, Kinds DEF About, Comparisons, IsConst
  <2>2. val[e] = (IF v[a] = Number(e.t) THEN 2 ELSE 0) /\ val[f] = (IF v[a] = Number(f.t) THEN 0 ELSE 2)
    BY <1>1, <2>1, Against
  <2>3. CASE e.t # f.t
    BY <1>7, <2>1, <2>2, <2>3 DEF Least, Consts, Number
  <2>4. CASE e.t = f.t
    <3>1. val[Sym("n")] = 0
      BY <1>7, <2>4, Values DEF SymValue
    <3> QED
      BY <1>7, <2>2, <2>4, <3>1 DEF Least
  <2> QED
    BY <2>3, <2>4
<1>8. CASE a \in Tristates /\ Equation(e1, e2)
  <2>1. JoinAnd(e1, e2) = Decide(e1, e2)
    BY <1>8 DEF JoinAnd, With, Both
  <2> QED
    BY <1>1, <1>7, <1>8, <2>1 DEF LevelValue
<1>9. CASE a \in Tristates /\ Equation(e2, e1)
  <2>1. JoinAnd(e1, e2) = Decide(e2, e1)
    BY <1>9 DEF JoinAnd, With, Both
  <2> QED
    BY <1>1, <1>7, <1>9, <2>1 DEF LevelValue
<1>10. CASE a \in Tristates /\ Both(e1, e2, "!=") /\ e1.t # e2.t /\ IsConst(e1.t) /\ IsConst(e2.t)
  <2>1. JoinAnd(e1, e2) = Comp("=", a, Third(e1, e2))
    BY <1>10 DEF JoinAnd, With, Both
  <2>2. e1 = Comp("!=", a, e1.t) /\ e2 = Comp("!=", a, e2.t)
    BY <1>1, <1>10, Kinds DEF Both, About, Comparisons
  <2>3. val[e1] = (IF v[a] = Number(e1.t) THEN 0 ELSE 2) /\ val[e2] = (IF v[a] = Number(e2.t) THEN 0 ELSE 2)
    BY <1>1, <1>10, <2>2, Against DEF IsConst
  <2>4. val[JoinAnd(e1, e2)] = (IF v[a] = Number(Third(e1, e2)) THEN 2 ELSE 0)
    BY <1>1, <1>10, <2>1, Against, ThirdIsThird DEF IsConst
  <2> QED
    BY <1>2, <1>10, <2>3, <2>4, ThirdIsThird DEF IsConst, LevelValue, Least
<1> QED
  BY <1>4, <1>5, <1>6, <1>8, <1>9, <1>10 DEF JoinAnd

-----------------------------------------------------------------------------
(* Normalising.                                                            *)

(* A bool compared with a constant (expr.c:708-751), `tested for m' too.    *)
LEMMA BoolComparisonKeeps ==
    ASSUME NEW E, NEW v, NEW val, Calculated(E, v, val), NEW e \in E, e.op \in Comparisons,
           BoolComparison(e) \in E, Sym(e.s) \in E
    PROVE  val[BoolComparison(e)] = val[e]
<1>1. v \in Assignments /\ e = Comp(e.op, e.s, e.t) /\ e.s \in Symbols
  BY Kinds DEF Calculated
<1>2. CASE e.s \in Bools /\ e.op \in {"=", "!="} /\ IsConst(e.t)
  <2>1. v[e.s] \in 0..2 /\ v[e.s] # 1 /\ val[Sym(e.s)] = v[e.s]
    BY <1>1, <1>2, SymbolValues, Values
  <2>2. val[e] = (IF (v[e.s] = Number(e.t)) = (e.op = "=") THEN 2 ELSE 0)
    BY <1>1, <1>2, Against DEF IsConst
  <2>3. CASE e.t = "m"
    <3>1. BoolComparison(e) = Sym(IF e.op = "=" THEN "n" ELSE "y")
      BY <1>2, <2>3 DEF BoolComparison
    <3>2. val[BoolComparison(e)] = (IF e.op = "=" THEN 0 ELSE 2)
      BY <3>1, Values DEF SymValue
    <3> QED
      BY <1>2, <2>1, <2>2, <2>3, <3>2 DEF Number
  <2>4. CASE e.t # "m"
    <3>1. BoolComparison(e) = IF (e.op = "=") = (e.t = "y") THEN Sym(e.s) ELSE Not(Sym(e.s))
      BY <1>2, <2>4 DEF BoolComparison
    <3>2. val[BoolComparison(e)] = IF (e.op = "=") = (e.t = "y") THEN v[e.s] ELSE 2 - v[e.s]
      BY <2>1, <3>1, Values
    <3>3. e.t \in {"y", "n"} /\ Number("y") = 2 /\ Number("n") = 0
      BY <1>2, <2>4 DEF IsConst, Consts, Number
    <3> QED
      BY <1>2, <2>1, <2>2, <3>2, <3>3
  <2> QED
    BY <2>3, <2>4
<1>3. CASE ~(e.s \in Bools /\ e.op \in {"=", "!="} /\ IsConst(e.t))
  BY <1>3 DEF BoolComparison
<1> QED
  BY <1>2, <1>3

(* A negation that is pushed into && or || (expr.c:786-803).               *)
LEMMA PushedKeeps ==
    ASSUME NEW E, NEW v, NEW val, Calculated(E, v, val), NEW x \in E, x.op \in Logical,
           {Not(x), Not(x.l), Not(x.r), Pushed(x)} \subseteq E
    PROVE  val[Pushed(x)] = val[Not(x)]
<1>1. x = Two(x.op, x.l, x.r) /\ x.l \in E /\ x.r \in E
  BY Kinds
<1>2. val[x] = LevelValue(x.op, val[x.l], val[x.r]) /\ val[x.l] \in 0..2 /\ val[x.r] \in 0..2
  BY <1>1, Values
<1>3. val[Pushed(x)] = LevelValue(Dual(x.op), 2 - val[x.l], 2 - val[x.r])
  <2>1. Dual(x.op) \in Logical
    BY DEF Dual, Logical
  <2> QED
    BY <2>1, Values DEF Pushed
<1>4. val[Not(x)] = 2 - val[x]
  BY Values
<1> QED
  BY <1>2, <1>3, <1>4 DEF LevelValue, Dual, Logical, Least, Greatest

(* The negation of a comparison or a constant, for which there is another   *)
(* comparison or constant (expr.c:762-785, 804-832).                        *)
LEMMA ComplementKeeps ==
    ASSUME NEW E, NEW v, NEW val, Calculated(E, v, val), NEW x \in E, Not(x) \in E, Complement(x) \in E
    PROVE  val[Complement(x)] = val[Not(x)]
<1>1. val[Not(x)] = 2 - val[x] /\ val[x] \in 0..2
  BY Values
<1>2. CASE x.op \in Comparisons
  <2>1. Complement(x) = Comp(Opposite[x.op], x.s, x.t)
    BY <1>2, OppositeDomain DEF Complement, Comparisons
  <2>2. x = Comp(x.op, x.s, x.t) /\ x.s \in Symbols /\ x.t \in Symbols \cup Consts
    BY <1>2, Kinds
  <2> DEFINE d == Difference(x.s, x.t, v)
  <2>3. d \in Int
    <3>1. v \in Assignments
      BY DEF Calculated
    <3>2. v[x.s] \in 0..2 /\ SymValue(x.s, v) = v[x.s]
      BY <2>2, <3>1, SymbolValues
    <3>3. CASE x.t \in Consts
      BY <3>1, <3>2, <3>3, SymbolValues DEF Difference, ByName, Number, Consts
    <3>4. CASE x.t \notin Consts
      BY <2>2, <3>1, <3>2, <3>4, SymbolValues DEF Difference
    <3> QED
      BY <3>3, <3>4
  <2> HIDE DEF d
  <2>4. Opposite[x.op] \in Comparisons /\ (Holds(Opposite[x.op], d) <=> ~Holds(x.op, d))
    <3>1. Opposite[x.op] \in Comparisons
      BY <1>2, Opposites
    <3>2. Holds(Opposite[x.op], d) <=> ~Holds(x.op, d)
      BY <1>2, <2>3, Opposites, Signs DEF Comparisons
    <3> QED
      BY <3>1, <3>2
  <2>5. val[x] = (IF Holds(x.op, d) THEN 2 ELSE 0) /\ val[Complement(x)] = (IF Holds(Opposite[x.op], d) THEN 2 ELSE 0)
    BY <1>2, <2>1, <2>2, <2>4, Values DEF d
  <2> QED
    BY <1>1, <2>4, <2>5
<1>3. CASE x.op = "sym" /\ IsConst(x.s)
  <2>1. x = Sym(x.s) /\ x.s \in Consts
    BY <1>3, Kinds DEF IsConst
  <2> DEFINE c == CASE x.s = "y" -> "n" [] x.s = "m" -> "m" [] x.s = "n" -> "y"
  <2>2. Complement(x) = Sym(c)
    BY <1>3, OppositeDomain DEF Complement, Comparisons
  <2>3. val[x] = SymValue(x.s, v)
    BY <2>1, Values
  <2>4. val[Complement(x)] = SymValue(c, v)
    <3> HIDE DEF c
    <3> QED
      BY <2>2, Values
  <2> QED
    BY <1>1, <2>1, <2>3, <2>4 DEF SymValue, Consts
<1>4. CASE x.op \notin Comparisons /\ ~(x.op = "sym" /\ IsConst(x.s))
  BY <1>4, OppositeDomain DEF Complement
<1> QED
  BY <1>2, <1>3, <1>4

(* The rules of expr_transform (expr.c:686-841): for bools and tristates,   *)
(* m included, no normalisation of a comparison or of a negation changes    *)
(* the value.                                                               *)
THEOREM TransformingKeeps ==
    ASSUME NEW E, NEW v, NEW val, Calculated(E, v, val)
    PROVE  /\ \A e \in E : e.op \in Comparisons /\ {BoolComparison(e), Sym(e.s)} \subseteq E
                            => val[BoolComparison(e)] = val[e]
           /\ \A x \in E : Not(x) \in E =>
                /\ x.op = "not" => val[x.l] = val[Not(x)]
                /\ x.op \in Logical /\ {Not(x.l), Not(x.r), Pushed(x)} \subseteq E => val[Pushed(x)] = val[Not(x)]
                /\ Complement(x) \in E => val[Complement(x)] = val[Not(x)]
<1>1. ASSUME NEW e \in E, e.op \in Comparisons, {BoolComparison(e), Sym(e.s)} \subseteq E
      PROVE  val[BoolComparison(e)] = val[e]
  BY <1>1, BoolComparisonKeeps
<1>2. ASSUME NEW x \in E, Not(x) \in E, x.op = "not"
      PROVE  val[x.l] = val[Not(x)]
  <2>1. x = Not(x.l) /\ x.l \in E
    BY <1>2, Kinds
  <2> QED
    BY <1>2, <2>1, Values
<1>3. ASSUME NEW x \in E, Not(x) \in E, x.op \in Logical, {Not(x.l), Not(x.r), Pushed(x)} \subseteq E
      PROVE  val[Pushed(x)] = val[Not(x)]
  BY <1>3, PushedKeeps
<1>4. ASSUME NEW x \in E, Not(x) \in E, Complement(x) \in E
      PROVE  val[Complement(x)] = val[Not(x)]
  BY <1>4, ComplementKeeps
<1> QED
  BY <1>1, <1>2, <1>3, <1>4

(* FOO!=n as FOO keeps whether it is n, and so do && and || of what does    *)
(* (expr.c:394-418); a negation does not, and is pushed down to symbols     *)
(* before.                                                                  *)
THEOREM BareKeepsNo ==
    ASSUME NEW E, NEW v, NEW val, Calculated(E, v, val)
    PROVE  /\ \A e \in E : Bare(e) \in E => (val[Bare(e)] = 0) = (val[e] = 0)
           /\ \A op \in Logical : \A i, j, k, l \in 0..2 :
                (i = 0) = (k = 0) /\ (j = 0) = (l = 0)
                   => (LevelValue(op, i, j) = 0) = (LevelValue(op, k, l) = 0)
<1>1. ASSUME NEW e \in E, Bare(e) \in E PROVE (val[Bare(e)] = 0) = (val[e] = 0)
  <2>1. CASE e.op = "!=" /\ e.s \in Tristates /\ e.t = "n"
    <3>1. v \in Assignments /\ e = Comp("!=", e.s, "n") /\ e.s \in Symbols /\ Bare(e) = Sym(e.s) /\ "n" \in Consts
      BY <2>1, Kinds DEF Calculated, Bare, Comparisons, Consts
    <3>2. val[e] = IF v[e.s] = Number("n") THEN 0 ELSE 2
      BY <3>1, Against
    <3>3. val[Bare(e)] = v[e.s]
      BY <1>1, <3>1, SymbolValues, Values
    <3> QED
      BY <3>2, <3>3 DEF Number
  <2>2. CASE ~(e.op = "!=" /\ e.s \in Tristates /\ e.t = "n")
    BY <2>2 DEF Bare
  <2> QED
    BY <2>1, <2>2
<1>2. ASSUME NEW op \in Logical, NEW i \in 0..2, NEW j \in 0..2, NEW k \in 0..2, NEW l \in 0..2,
             (i = 0) = (k = 0), (j = 0) = (l = 0)
      PROVE  (LevelValue(op, i, j) = 0) = (LevelValue(op, k, l) = 0)
  BY <1>2 DEF LevelValue, Least, Greatest
<1> QED
  BY <1>1, <1>2

(* An expression that is found to depend on a symbol is n when the symbol   *)
(* is (expr.c:871-903), which is why an entry may go below another one.     *)
THEOREM DependsMeansNo ==
    ASSUME NEW E, NEW v, NEW val, Calculated(E, v, val), NEW s \in Symbols, v[s] = 0
    PROVE  /\ \A e \in E : LeafDepends(e, s) => val[e] = 0
           /\ \A i, j \in 0..2 : i = 0 \/ j = 0 => LevelValue("and", i, j) = 0
<1>1. ASSUME NEW e \in E, LeafDepends(e, s) PROVE val[e] = 0
  <2>1. v \in Assignments /\ {"y", "m", "n"} \subseteq Consts /\ Number("y") = 2 /\ Number("m") = 1 /\ Number("n") = 0
    BY DEF Calculated, Consts, Number
  <2>2. CASE e.op = "sym"
    BY <1>1, <2>1, <2>2, Kinds, Values, SymbolValues DEF LeafDepends
  <2>3. CASE e.op = "="
    <3>1. e = Comp("=", s, e.t) /\ e.t \in {"y", "m"}
      BY <1>1, <2>3, Kinds DEF LeafDepends, Comparisons
    <3> QED
      BY <2>1, <3>1, Against
  <2>4. CASE e.op = "!="
    <3>1. e = Comp("!=", s, "n")
      BY <1>1, <2>4, Kinds DEF LeafDepends, Comparisons
    <3> QED
      BY <2>1, <3>1, Against
  <2> QED
    BY <1>1, <2>2, <2>3, <2>4 DEF LeafDepends
<1>2. \A i, j \in 0..2 : i = 0 \/ j = 0 => LevelValue("and", i, j) = 0
  BY DEF LevelValue, Least
<1> QED
  BY <1>1, <1>2

-----------------------------------------------------------------------------
(* The operands of a level.                                                *)

(* The value of a level with the operands ls: the least or the greatest.   *)
IsLevel(op, val, ls, m) ==
    /\ \E i \in DOMAIN ls : val[ls[i]] = m
    /\ \A i \in DOMAIN ls : LevelValue(op, m, val[ls[i]]) = m

LEMMA NeutralValue ==
    ASSUME NEW E, NEW v, NEW val, Calculated(E, v, val), NEW op \in Logical
    PROVE  Neutral(op) \in E => val[Neutral(op)] = IF op = "and" THEN 2 ELSE 0
BY Values DEF Neutral, SymValue, Logical

(* Every level has one value.                                              *)
LEMMA LevelHasValue ==
    ASSUME NEW E, NEW v, NEW val, Calculated(E, v, val), NEW op \in Logical, NEW ls \in Seq(E), DOMAIN ls # {}
    PROVE  /\ \E m \in 0..2 : IsLevel(op, val, ls, m)
           /\ \A m, n : IsLevel(op, val, ls, m) /\ IsLevel(op, val, ls, n) => m = n
<1>1. \A i \in DOMAIN ls : val[ls[i]] \in 0..2
  BY Values
<1>2. \E m \in 0..2 : IsLevel(op, val, ls, m)
  <2>1. CASE op = "and"
    <3>1. CASE \E i \in DOMAIN ls : val[ls[i]] = 0
      BY <1>1, <2>1, <3>1 DEF IsLevel, LevelValue, Least
    <3>2. CASE (\E i \in DOMAIN ls : val[ls[i]] = 1) /\ \A i \in DOMAIN ls : val[ls[i]] # 0
      BY <1>1, <2>1, <3>2 DEF IsLevel, LevelValue, Least
    <3>3. CASE \A i \in DOMAIN ls : val[ls[i]] \notin {0, 1}
      BY <1>1, <2>1, <3>3 DEF IsLevel, LevelValue, Least
    <3> QED
      BY <3>1, <3>2, <3>3
  <2>2. CASE op = "or"
    <3>1. CASE \E i \in DOMAIN ls : val[ls[i]] = 2
      BY <1>1, <2>2, <3>1 DEF IsLevel, LevelValue, Greatest
    <3>2. CASE (\E i \in DOMAIN ls : val[ls[i]] = 1) /\ \A i \in DOMAIN ls : val[ls[i]] # 2
      BY <1>1, <2>2, <3>2 DEF IsLevel, LevelValue, Greatest
    <3>3. CASE \A i \in DOMAIN ls : val[ls[i]] \notin {2, 1}
      BY <1>1, <2>2, <3>3 DEF IsLevel, LevelValue, Greatest
    <3> QED
      BY <3>1, <3>2, <3>3
  <2> QED
    BY <2>1, <2>2 DEF Logical
<1>3. ASSUME NEW m, NEW n, IsLevel(op, val, ls, m), IsLevel(op, val, ls, n) PROVE m = n
  BY <1>1, <1>3 DEF IsLevel, LevelValue, Least, Greatest
<1> QED
  BY <1>2, <1>3

(* The operands of a tree are those of its subtrees (expr.c:151-164).       *)
LEMMA LeavesKeep ==
    ASSUME NEW E, NEW v, NEW val, Calculated(E, v, val), NEW op \in Logical
    PROVE  /\ \A e \in E : IsLevel(op, val, <<e>>, val[e])
           /\ \A s, t \in Seq(E) : \A m, n \in 0..2 :
                IsLevel(op, val, s, m) /\ IsLevel(op, val, t, n)
                  => IsLevel(op, val, s \o t, LevelValue(op, m, n))
<1>1. ASSUME NEW e \in E PROVE IsLevel(op, val, <<e>>, val[e])
  <2>1. val[e] \in 0..2
    BY Values
  <2> QED
    BY <2>1 DEF IsLevel, LevelValue, Least, Greatest
<1>2. ASSUME NEW s \in Seq(E), NEW t \in Seq(E), NEW m \in 0..2, NEW n \in 0..2,
             IsLevel(op, val, s, m), IsLevel(op, val, t, n)
      PROVE  IsLevel(op, val, s \o t, LevelValue(op, m, n))
  <2> DEFINE u == s \o t
  <2>1. /\ Len(u) = Len(s) + Len(t) /\ DOMAIN u = 1..Len(u) /\ DOMAIN s = 1..Len(s) /\ DOMAIN t = 1..Len(t)
        /\ \A i \in DOMAIN s : u[i] = s[i]
        /\ \A i \in DOMAIN t : u[Len(s) + i] = t[i]
        /\ Len(s) \in Nat /\ Len(t) \in Nat
    OBVIOUS
  <2>2. \A i \in DOMAIN s : val[s[i]] \in 0..2
    BY Values
  <2>3. \A i \in DOMAIN t : val[t[i]] \in 0..2
    BY Values
  <2> HIDE DEF u
  <2>4. LevelValue(op, m, n) \in {m, n}
    BY DEF LevelValue, Least, Greatest
  <2>5. \E i \in DOMAIN u : val[u[i]] = LevelValue(op, m, n)
    <3>1. PICK i \in DOMAIN s : val[s[i]] = m
      BY <1>2 DEF IsLevel
    <3>2. PICK j \in DOMAIN t : val[t[j]] = n
      BY <1>2 DEF IsLevel
    <3>3. i \in DOMAIN u /\ Len(s) + j \in DOMAIN u /\ val[u[i]] = m /\ val[u[Len(s) + j]] = n
      BY <2>1, <3>1, <3>2
    <3> QED
      BY <2>4, <3>3
  <2>6. ASSUME NEW i \in DOMAIN u PROVE LevelValue(op, LevelValue(op, m, n), val[u[i]]) = LevelValue(op, m, n)
    <3>1. CASE i \in DOMAIN s
      <4>1. LevelValue(op, m, val[u[i]]) = m /\ val[u[i]] \in 0..2
        BY <1>2, <2>1, <2>2, <3>1 DEF IsLevel
      <4> QED
        BY <4>1 DEF LevelValue, Least, Greatest
    <3>2. CASE i \notin DOMAIN s
      <4>1. i - Len(s) \in DOMAIN t /\ u[i] = t[i - Len(s)]
        BY <2>1, <3>2
      <4>2. LevelValue(op, n, val[u[i]]) = n /\ val[u[i]] \in 0..2
        BY <1>2, <2>3, <4>1 DEF IsLevel
      <4> QED
        BY <4>2 DEF LevelValue, Least, Greatest
    <3> QED
      BY <3>1, <3>2
  <2> QED
    BY <2>5, <2>6 DEF IsLevel, u
<1> QED
  BY <1>1, <1>2

(* y and n as operands (expr.c:298-389).                                   *)
THEOREM YnKeeps ==
    ASSUME NEW E, NEW v, NEW val, Calculated(E, v, val), NEW op \in Logical, NEW l \in E, NEW r \in E,
           Two(op, l, r) \in E, Yn(op, l, r) \in E
    PROVE  val[Yn(op, l, r)] = val[Two(op, l, r)]
<1>1. val[Two(op, l, r)] = LevelValue(op, val[l], val[r]) /\ val[l] \in 0..2 /\ val[r] \in 0..2
  BY Values
<1>2. Dual(op) \in Logical
  BY DEF Dual, Logical
<1>3. CASE l = Neutral(Dual(op)) \/ r = Neutral(Dual(op))
  <2>1. Yn(op, l, r) = Neutral(Dual(op))
    BY <1>3 DEF Yn
  <2>2. val[Neutral(Dual(op))] = IF op = "and" THEN 0 ELSE 2
    BY <1>2, <1>3, NeutralValue DEF Dual, Logical
  <2> QED
    BY <1>1, <1>3, <2>1, <2>2 DEF LevelValue, Least, Greatest
<1>4. CASE ~(l = Neutral(Dual(op)) \/ r = Neutral(Dual(op))) /\ l = Neutral(op)
  <2>1. Yn(op, l, r) = r /\ val[l] = IF op = "and" THEN 2 ELSE 0
    BY <1>4, NeutralValue DEF Yn
  <2> QED
    BY <1>1, <2>1 DEF LevelValue, Least, Greatest
<1>5. CASE ~(l = Neutral(Dual(op)) \/ r = Neutral(Dual(op))) /\ l # Neutral(op) /\ r = Neutral(op)
  <2>1. Yn(op, l, r) = l /\ val[r] = IF op = "and" THEN 2 ELSE 0
    BY <1>5, NeutralValue DEF Yn
  <2> QED
    BY <1>1, <2>1 DEF LevelValue, Least, Greatest
<1>6. CASE ~(l = Neutral(Dual(op)) \/ r = Neutral(Dual(op))) /\ l # Neutral(op) /\ r # Neutral(op)
  BY <1>6 DEF Yn
<1> QED
  BY <1>3, <1>4, <1>5, <1>6

LEMMA JoinUnequalKeeps ==
    ASSUME NEW E, NEW v, NEW val, Calculated(E, v, val), NEW op \in Logical, NEW e1 \in E, NEW e2 \in E,
           JoinUnequal(op, e1, e2) # Null, JoinUnequal(op, e1, e2) \in E
    PROVE  val[JoinUnequal(op, e1, e2)] = LevelValue(op, val[e1], val[e2])
<1>1. SameSymbol(e1, e2)
  BY DEF JoinUnequal
<1>2. CASE op = "or"
  BY <1>1, <1>2, JoinOrKeeps DEF JoinUnequal
<1>3. CASE op = "and"
  BY <1>1, <1>3, JoinAndKeeps DEF JoinUnequal
<1> QED
  BY <1>2, <1>3 DEF Logical

(* One round of expr_eliminate_dups1 (expr.c:606-640): an operand that has  *)
(* been simplified to inner.e is joined with another operand of its level,  *)
(* in place; the level keeps its value.                                     *)
THEOREM JoiningKeeps ==
    ASSUME NEW E, NEW v, NEW val, Calculated(E, v, val), NEW op \in Logical, NEW ls \in Seq(E), Neutral(op) \in E,
           NEW i \in DOMAIN ls, NEW j \in DOMAIN ls, i # j,
           NEW inner, inner.e \in E, val[inner.e] = val[ls[i]],
           NEW join \in E \cup {Null},
           \/ join = JoinUnequal(op, inner.e, ls[j])
           \/ join = inner.e /\ val[inner.e] = val[ls[j]] /\ join # Null,
           NEW m
    PROVE  IsLevel(op, val, ls, m) <=> IsLevel(op, val, WithBoth(ls, i, j, Joined(op, inner, ls[j], join)), m)
<1> DEFINE both == Joined(op, inner, ls[j], join)
           new == WithBoth(ls, i, j, both)
           x == val[ls[i]]
           y == val[ls[j]]
<1>1. ls[i] \in E /\ ls[j] \in E /\ x \in 0..2 /\ y \in 0..2 /\ \A k \in DOMAIN ls : val[ls[k]] \in 0..2
  BY Values
<1>2. /\ DOMAIN new = DOMAIN ls /\ new[i] = both.e1 /\ new[j] = both.e2
      /\ \A k \in DOMAIN ls : k \notin {i, j} => new[k] = ls[k]
  BY DEF WithBoth
<1>3. val[both.e1] \in 0..2 /\ val[both.e2] \in 0..2 /\ LevelValue(op, val[both.e1], val[both.e2]) = LevelValue(op, x, y)
  <2>1. CASE join = Null
    <3>1. both.e1 = inner.e /\ both.e2 = ls[j]
      BY <2>1 DEF Joined
    <3> QED
      BY <1>1, <3>1
  <2>2. CASE join # Null
    <3>1. both.e1 = Neutral(op) /\ both.e2 = join
      BY <2>2 DEF Joined
    <3>2. val[join] = LevelValue(op, x, y)
      <4>1. CASE join = JoinUnequal(op, inner.e, ls[j])
        BY <1>1, <2>2, <4>1, JoinUnequalKeeps
      <4>2. CASE join = inner.e /\ val[inner.e] = val[ls[j]]
        BY <1>1, <4>2 DEF LevelValue, Least, Greatest
      <4> QED
        BY <4>1, <4>2
    <3>3. val[Neutral(op)] = IF op = "and" THEN 2 ELSE 0
      BY NeutralValue
    <3> QED
      BY <1>1, <3>1, <3>2, <3>3 DEF LevelValue, Least, Greatest
  <2> QED
    BY <2>1, <2>2
<1> HIDE DEF new, both, x, y
<1> DEFINE old(k) == val[ls[k]]
           now(k) == val[new[k]]
<1>4. /\ \A k \in DOMAIN ls : k \notin {i, j} => now(k) = old(k)
      /\ old(i) = x /\ old(j) = y /\ now(i) \in 0..2 /\ now(j) \in 0..2
      /\ LevelValue(op, now(i), now(j)) = LevelValue(op, x, y)
  BY <1>2, <1>3 DEF x, y
<1>5. \A k \in DOMAIN ls : old(k) \in 0..2 /\ now(k) \in 0..2
  BY <1>1, <1>4
<1> HIDE DEF old, now
<1>6. ((\E k \in DOMAIN ls : old(k) = m) /\ (\A k \in DOMAIN ls : LevelValue(op, m, old(k)) = m))
      <=> ((\E k \in DOMAIN ls : now(k) = m) /\ (\A k \in DOMAIN ls : LevelValue(op, m, now(k)) = m))
  BY <1>4, <1>5 DEF LevelValue, Least, Greatest
<1>7. IsLevel(op, val, ls, m) <=> (\E k \in DOMAIN ls : old(k) = m) /\ (\A k \in DOMAIN ls : LevelValue(op, m, old(k)) = m)
  BY DEF IsLevel, old
<1>8. IsLevel(op, val, new, m) <=> (\E k \in DOMAIN ls : now(k) = m) /\ (\A k \in DOMAIN ls : LevelValue(op, m, now(k)) = m)
  BY <1>2 DEF IsLevel, now
<1> QED
  BY <1>6, <1>7, <1>8 DEF new, both

(* The value of a level in which one operand has become neutral, and before. *)
LEMMA NeutralLevel ==
    ASSUME NEW E, NEW v, NEW val, Calculated(E, v, val), NEW op \in Logical, Neutral(op) \in E,
           NEW ls \in Seq(E), NEW k \in DOMAIN ls, NEW m \in 0..2, NEW n \in 0..2,
           IsLevel(op, val, ls, m), IsLevel(op, val, [ls EXCEPT ![k] = Neutral(op)], n)
    PROVE  m = LevelValue(op, n, val[ls[k]])
<1> DEFINE new == [ls EXCEPT ![k] = Neutral(op)]
<1>1. DOMAIN new = DOMAIN ls /\ new[k] = Neutral(op) /\ \A h \in DOMAIN ls : h # k => new[h] = ls[h]
  OBVIOUS
<1>2. \A h \in DOMAIN ls : val[ls[h]] \in 0..2
  BY Values
<1>3. val[new[k]] = IF op = "and" THEN 2 ELSE 0
  BY <1>1, NeutralValue
<1>4. /\ \E h \in DOMAIN ls : val[ls[h]] = m
      /\ \A h \in DOMAIN ls : LevelValue(op, m, val[ls[h]]) = m
      /\ \E h \in DOMAIN ls : val[new[h]] = n
      /\ \A h \in DOMAIN ls : LevelValue(op, n, val[new[h]]) = n
  BY <1>1 DEF IsLevel
<1> DEFINE x == val[ls[k]]
<1>5. PICK h \in DOMAIN ls : val[ls[h]] = m
  BY <1>4
<1>6. PICK g \in DOMAIN ls : val[new[g]] = n
  BY <1>4
<1> HIDE DEF new
<1>7. LevelValue(op, m, x) = m /\ x \in 0..2 /\ (m = x \/ LevelValue(op, n, m) = n)
  <2>1. CASE h = k
    BY <1>2, <1>4, <1>5, <2>1
  <2>2. CASE h # k
    <3>1. val[new[h]] = m
      BY <1>1, <1>5, <2>2
    <3> QED
      BY <1>2, <1>4, <3>1
  <2> QED
    BY <2>1, <2>2
<1>8. LevelValue(op, m, n) = m
  <2>1. CASE g = k
    BY <1>1, <1>3, <1>6, <2>1 DEF LevelValue, Least, Greatest
  <2>2. CASE g # k
    <3>1. val[ls[g]] = n
      BY <1>1, <1>6, <2>2
    <3> QED
      BY <1>4, <3>1
  <2> QED
    BY <2>1, <2>2
<1> HIDE DEF x
<1>9. m = LevelValue(op, n, x)
  BY <1>7, <1>8 DEF LevelValue, Least, Greatest
<1> QED
  BY <1>9 DEF x

(* A round of __expr_eliminate_eq (expr.c:149-192): when two levels have    *)
(* the same value after equal operands have become neutral in both, they   *)
(* had the same value before.  So an expr_eq that finds nothing left over   *)
(* compares expressions of the same value.                                  *)
THEOREM CancellingKeeps ==
    ASSUME NEW E, NEW v, NEW val, Calculated(E, v, val), NEW op \in Logical, Neutral(op) \in E,
           NEW ls1 \in Seq(E), NEW ls2 \in Seq(E), NEW i \in DOMAIN ls1, NEW j \in DOMAIN ls2,
           val[ls1[i]] = val[ls2[j]],
           NEW m1 \in 0..2, NEW m2 \in 0..2, NEW n1 \in 0..2, NEW n2 \in 0..2,
           IsLevel(op, val, ls1, m1), IsLevel(op, val, ls2, m2),
           IsLevel(op, val, Cancelled(op, ls1, ls2, i, j)[1], n1),
           IsLevel(op, val, Cancelled(op, ls1, ls2, i, j)[2], n2)
    PROVE  /\ m1 = LevelValue(op, n1, val[ls1[i]]) /\ m2 = LevelValue(op, n2, val[ls1[i]])
           /\ n1 = n2 => m1 = m2
<1>1. m1 = LevelValue(op, n1, val[ls1[i]])
  BY NeutralLevel DEF Cancelled
<1>2. m2 = LevelValue(op, n2, val[ls2[j]])
  BY NeutralLevel DEF Cancelled
<1> QED
  BY <1>1, <1>2

-----------------------------------------------------------------------------
(* Whole expressions.                                                      *)

(* What is below x by measure h being in S, x is.                          *)
Inherited(X, h, S) == \A x \in X : (\A y \in X : h[y] < h[x] => y \in S) => x \in S

LEMMA Induction ==
    ASSUME NEW X, NEW h \in [X -> Nat], NEW S, Inherited(X, h, S)
    PROVE  X \subseteq S
<1> SUFFICES ASSUME X \ S # {} PROVE FALSE
  OBVIOUS
<1> DEFINE H == {h[x] : x \in X \ S}
<1>1. H \subseteq Nat /\ H # {}
  OBVIOUS
<1>2. \E n \in H : \A m \in H : ~ (<<m, n>> \in OpToRel(<, Nat))
  <2> HIDE DEF H
  <2> QED
    BY <1>1, WFMin, NatLessThanWellFounded
<1>3. PICK n \in H : \A m \in H : ~ (<<m, n>> \in OpToRel(<, Nat))
  BY <1>2
<1>4. PICK x \in X \ S : n = h[x]
  BY <1>3
<1>5. ASSUME NEW y \in X, h[y] < h[x] PROVE y \in S
  <2>1. h[y] \in Nat /\ n \in Nat /\ (h[y] \in H => ~(<<h[y], n>> \in OpToRel(<, Nat)))
    BY <1>1, <1>3, <1>4
  <2>2. h[y] \notin H
    BY <1>4, <1>5, <2>1 DEF OpToRel
  <2> QED
    BY <2>2
<1> QED
  BY <1>4, <1>5 DEF Inherited

(* E is the set of all expressions: height is that of each as a tree.       *)
Whole(E, height) ==
    /\ E = Expressions(E)
    /\ height \in [E -> Nat]
    /\ \A e \in E : /\ e.op = "not" => height[e.l] < height[e]
                    /\ e.op \in Logical => height[e.l] < height[e] /\ height[e.r] < height[e]

LEMMA Parts ==
    ASSUME NEW E, NEW height, Whole(E, height)
    PROVE  /\ Null \in E
           /\ \A s \in Symbols \cup Consts : Sym(s) \in E
           /\ \A e \in E : Not(e) \in E
           /\ \A op \in Logical : \A e, f \in E : Two(op, e, f) \in E
           /\ \A op \in Comparisons : \A s \in Symbols : \A t \in Symbols \cup Consts : Comp(op, s, t) \in E
           /\ \A op : Neutral(op) \in E
<1>1. /\ \A s \in Symbols \cup Consts : Sym(s) \in Expressions(E)
      /\ \A e \in E : Not(e) \in Expressions(E)
      /\ \A op \in Logical : \A e, f \in E : Two(op, e, f) \in Expressions(E)
      /\ \A op \in Comparisons : \A s \in Symbols : \A t \in Symbols \cup Consts : Comp(op, s, t) \in Expressions(E)
      /\ Null \in Expressions(E)
  BY OppositeDomain DEF Expressions
<1>2. \A op : Neutral(op) \in {Sym(c) : c \in Consts}
  BY DEF Neutral, Consts
<1> QED
  BY <1>1, <1>2 DEF Whole

LEMMA KindsOf ==
    ASSUME NEW E, NEW height, Whole(E, height), NEW e \in E
    PROVE  /\ e.op \in {"null", "sym", "not"} \cup Logical \cup Comparisons
           /\ e.op = "null" => e = Null
           /\ e.op = "sym" => e = Sym(e.s) /\ e.s \in Symbols \cup Consts
           /\ e.op = "not" => e = Not(e.l) /\ e.l \in E /\ height[e.l] < height[e]
           /\ e.op \in Logical => /\ e = Two(e.op, e.l, e.r) /\ e.l \in E /\ e.r \in E
                                  /\ height[e.l] < height[e] /\ height[e.r] < height[e]
           /\ e.op \in Comparisons => e = Comp(e.op, e.s, e.t) /\ e.s \in Symbols /\ e.t \in Symbols \cup Consts
<1>1. e \in Expressions(E)
  BY DEF Whole
<1>2. CASE e = Null
  BY <1>2 DEF Null, Logical, Comparisons
<1>3. CASE \E s \in Symbols \cup Consts : e = Sym(s)
  BY <1>3 DEF Sym, Logical, Comparisons
<1>4. CASE \E f \in E : e = Not(f)
  BY <1>4 DEF Not, Logical, Comparisons, Whole
<1>5. CASE \E op \in Logical, f \in E, g \in E : e = Two(op, f, g)
  BY <1>5 DEF Two, Logical, Comparisons, Whole
<1>6. CASE \E op \in Comparisons, s \in Symbols, t \in Symbols \cup Consts : e = Comp(op, s, t)
  BY <1>6 DEF Comp, Logical, Comparisons
<1> QED
  BY <1>1, <1>2, <1>3, <1>4, <1>5, <1>6, OppositeDomain DEF Expressions

LEMMA OpsDiffer ==
    /\ "not" \notin Logical /\ "sym" \notin Logical /\ "null" \notin Logical
    /\ "not" \notin Comparisons /\ "sym" \notin Comparisons /\ "null" \notin Comparisons
    /\ Logical \cap Comparisons = {}
BY DEF Logical, Comparisons

(* expr_eliminate_yn.                                                      *)
IsYn(E, yn) == yn \in [E -> E] /\ \A e \in E : yn[e] = YnStep(LAMBDA x : yn[x], e)

(* Dropping y and n wherever they are operands keeps the value of a whole  *)
(* expression (expr.c:298-389).                                            *)
THEOREM EliminateYnKeeps ==
    ASSUME NEW E, NEW height, Whole(E, height), NEW v, NEW val, Calculated(E, v, val),
           NEW yn, IsYn(E, yn), NEW e \in E
    PROVE  val[yn[e]] = val[e]
<1> DEFINE S == {f \in E : val[yn[f]] = val[f]}
<1>1. ASSUME NEW f \in E, \A g \in E : height[g] < height[f] => g \in S
      PROVE  f \in S
  <2>1. CASE f.op \in Logical
    <3>1. f = Two(f.op, f.l, f.r) /\ f.l \in S /\ f.r \in S
      BY <1>1, <2>1, KindsOf
    <3>2. yn[f] = Yn(f.op, yn[f.l], yn[f.r]) /\ yn[f.l] \in E /\ yn[f.r] \in E /\ yn[f] \in E
      BY <2>1, <3>1 DEF IsYn, YnStep
    <3>3. Two(f.op, yn[f.l], yn[f.r]) \in E
      BY <2>1, <3>2, Parts
    <3>4. val[yn[f]] = val[Two(f.op, yn[f.l], yn[f.r])]
      BY <2>1, <3>2, <3>3, YnKeeps
    <3>5. val[Two(f.op, yn[f.l], yn[f.r])] = LevelValue(f.op, val[f.l], val[f.r])
      BY <2>1, <3>1, <3>3, Values
    <3>6. val[f] = LevelValue(f.op, val[f.l], val[f.r])
      BY <2>1, <3>1, Values
    <3> QED
      BY <3>4, <3>5, <3>6
  <2>2. CASE f.op \notin Logical
    BY <2>2 DEF IsYn, YnStep
  <2> QED
    BY <2>1, <2>2
<1>2. height \in [E -> Nat]
  BY DEF Whole
<1> HIDE DEF S
<1>3. E \subseteq S
  BY <1>1, <1>2, Induction DEF Inherited
<1> QED
  BY <1>3 DEF S

(* expr_depends_symbol, expr_contains_symbol.                              *)
IsDepends(E, s, depends) ==
    depends \in [E -> BOOLEAN] /\ \A e \in E : depends[e] = DependsStep(LAMBDA x : depends[x], e, s)
IsContains(E, s, contains) ==
    contains \in [E -> BOOLEAN] /\ \A e \in E : contains[e] = ContainsStep(LAMBDA x : contains[x], e, s)

(* What is found to depend on a symbol is n when the symbol is: an entry may *)
(* go below the entry of that symbol (expr.c:871-903).                     *)
THEOREM DependsSymbolMeansNo ==
    ASSUME NEW E, NEW height, Whole(E, height), NEW v, NEW val, Calculated(E, v, val),
           NEW s \in Symbols, v[s] = 0, NEW depends, IsDepends(E, s, depends), NEW e \in E, depends[e]
    PROVE  val[e] = 0
<1> DEFINE S == {f \in E : depends[f] => val[f] = 0}
<1>1. ASSUME NEW f \in E, \A g \in E : height[g] < height[f] => g \in S
      PROVE  f \in S
  <2>1. CASE f.op = "and"
    <3>1. f = Two("and", f.l, f.r) /\ f.l \in S /\ f.r \in S /\ "and" \in Logical
      BY <1>1, <2>1, KindsOf DEF Logical
    <3>2. depends[f] = (depends[f.l] \/ depends[f.r])
      BY <2>1 DEF IsDepends, DependsStep
    <3>3. val[f] = LevelValue("and", val[f.l], val[f.r]) /\ val[f.l] \in 0..2 /\ val[f.r] \in 0..2
      BY <3>1, Values
    <3> QED
      BY <3>1, <3>2, <3>3, DependsMeansNo
  <2>2. CASE f.op # "and"
    <3>1. depends[f] = LeafDepends(f, s)
      BY <2>2 DEF IsDepends, DependsStep
    <3> QED
      BY <3>1, DependsMeansNo
  <2> QED
    BY <2>1, <2>2
<1>2. height \in [E -> Nat]
  BY DEF Whole
<1> HIDE DEF S
<1>3. E \subseteq S
  BY <1>1, <1>2, Induction DEF Inherited
<1> QED
  BY <1>3 DEF S

(* An expression that does not contain a symbol has the same value whatever *)
(* that of the symbol (expr.c:843-869).                                     *)
THEOREM WithoutSymbolSame ==
    ASSUME NEW E, NEW height, Whole(E, height), NEW s \in Symbols, NEW contains, IsContains(E, s, contains),
           NEW v, NEW val, Calculated(E, v, val), NEW w, NEW wal, Calculated(E, w, wal),
           \A t \in Symbols \ {s} : v[t] = w[t],
           NEW e \in E, ~contains[e]
    PROVE  val[e] = wal[e]
<1> DEFINE S == {f \in E : contains[f] \/ val[f] = wal[f]}
<1>1. v \in Assignments /\ w \in Assignments
  BY DEF Calculated
<1>2. /\ \A t \in (Symbols \ {s}) \cup Consts : SymValue(t, v) = SymValue(t, w)
      /\ \A t \in Symbols : SymValue(t, v) = v[t] /\ SymValue(t, w) = w[t]
  <2>1. \A t \in Consts : SymValue(t, v) = Number(t) /\ SymValue(t, w) = Number(t)
    BY <1>1, SymbolValues
  <2>2. \A t \in Symbols : SymValue(t, v) = v[t] /\ SymValue(t, w) = w[t]
    BY <1>1, SymbolValues
  <2> QED
    BY <2>1, <2>2
<1>3. ASSUME NEW f \in E, \A g \in E : height[g] < height[f] => g \in S
      PROVE  f \in S
  <2>1. CASE f.op \in Logical
    <3>1. f = Two(f.op, f.l, f.r) /\ f.l \in S /\ f.r \in S
      BY <1>3, <2>1, KindsOf
    <3>2. contains[f] = (contains[f.l] \/ contains[f.r])
      BY <2>1, OpsDiffer DEF IsContains, ContainsStep
    <3>3. /\ val[f] = LevelValue(f.op, val[f.l], val[f.r])
          /\ wal[f] = LevelValue(f.op, wal[f.l], wal[f.r])
      BY <2>1, <3>1, Values
    <3> QED
      BY <3>1, <3>2, <3>3
  <2>2. CASE f.op = "not"
    <3>1. f = Not(f.l) /\ f.l \in S
      BY <1>3, <2>2, KindsOf
    <3>2. contains[f] = contains[f.l]
      BY <2>2, OpsDiffer DEF IsContains, ContainsStep
    <3>3. val[f] = 2 - val[f.l] /\ wal[f] = 2 - wal[f.l]
      BY <3>1, Values
    <3> QED
      BY <3>1, <3>2, <3>3
  <2>3. CASE f.op = "sym"
    <3>1. f = Sym(f.s) /\ f.s \in Symbols \cup Consts
      BY <2>3, KindsOf
    <3>2. contains[f] = (f.s = s)
      BY <2>3, OpsDiffer DEF IsContains, ContainsStep
    <3>3. val[f] = SymValue(f.s, v) /\ wal[f] = SymValue(f.s, w)
      BY <3>1, Values
    <3>4. contains[f] \/ SymValue(f.s, v) = SymValue(f.s, w)
      BY <1>1, <3>1, <3>2, <1>2
    <3> QED
      BY <3>3, <3>4
  <2>4. CASE f.op = "null"
    <3>1. f = Null
      BY <2>4, KindsOf
    <3> QED
      BY <3>1, Values
  <2>5. CASE f.op \in Comparisons
    <3>1. f = Comp(f.op, f.s, f.t) /\ f.s \in Symbols /\ f.t \in Symbols \cup Consts
      BY <2>5, KindsOf
    <3>2. contains[f] = (s \in {f.s, f.t})
      <4>1. contains[f] = ContainsStep(LAMBDA x : contains[x], f, s)
        BY DEF IsContains
      <4> QED
        BY <2>5, <4>1, OpsDiffer DEF ContainsStep
    <3>3. SUFFICES ASSUME ~contains[f] PROVE val[f] = wal[f]
      OBVIOUS
    <3>4. v[f.s] = w[f.s] /\ SymValue(f.t, v) = SymValue(f.t, w) /\ (f.t \notin Consts => v[f.t] = w[f.t])
      BY <1>2, <3>1, <3>2, <3>3
    <3>5. SymValue(f.s, v) = v[f.s] /\ SymValue(f.s, w) = w[f.s]
      BY <1>2, <3>1
    <3>6. Difference(f.s, f.t, v) = Difference(f.s, f.t, w)
      BY <3>4, <3>5 DEF Difference
    <3>7. /\ val[f] = IF Holds(f.op, Difference(f.s, f.t, v)) THEN 2 ELSE 0
          /\ wal[f] = IF Holds(f.op, Difference(f.s, f.t, w)) THEN 2 ELSE 0
      BY <2>5, <3>1, Values
    <3> QED
      BY <3>6, <3>7
  <2> QED
    BY <2>1, <2>2, <2>3, <2>4, <2>5, KindsOf
<1>4. height \in [E -> Nat]
  BY DEF Whole
<1> HIDE DEF S
<1>5. E \subseteq S
  BY <1>3, <1>4, Induction DEF Inherited
<1> QED
  BY <1>5 DEF S

-----------------------------------------------------------------------------
(* expr_transform, expr_trans_bool.                                        *)
IsTransform(E, trans) ==
    trans \in [E -> E] /\ \A e \in E : trans[e] = TransformStep(LAMBDA x : trans[x], e)
IsTransBool(E, trans) ==
    trans \in [E -> E] /\ \A e \in E : trans[e] = BareStep(LAMBDA x : trans[x], e)

(* Expressions in which only symbols are negated, and no bool is compared   *)
(* with a constant.                                                        *)
IsNormal(N) ==
    \A e \in N : /\ e.op = "not" => e.l \in {Null} \cup {Sym(s) : s \in Symbols}
                 /\ e.op \in Logical => {e.l, e.r} \subseteq N
                 /\ e.op \in Comparisons => BoolComparison(e) = e
NormalForms(E) == UNION {N \in SUBSET E : IsNormal(N)}

LEMMA NormalFormsNormal ==
    ASSUME NEW E
    PROVE  /\ NormalForms(E) \subseteq E
           /\ IsNormal(NormalForms(E))
           /\ \A e \in E : IsNormal(NormalForms(E) \cup {e}) => e \in NormalForms(E)
<1>1. NormalForms(E) \subseteq E
  BY DEF NormalForms
<1>2. IsNormal(NormalForms(E))
  BY DEF NormalForms, IsNormal
<1>3. ASSUME NEW e \in E, IsNormal(NormalForms(E) \cup {e}) PROVE e \in NormalForms(E)
  <2>1. NormalForms(E) \cup {e} \in {N \in SUBSET E : IsNormal(N)}
    BY <1>1, <1>3
  <2> QED
    BY <2>1 DEF NormalForms
<1> QED
  BY <1>1, <1>2, <1>3

LEMMA MakesNormal ==
    ASSUME NEW E, NEW height, Whole(E, height)
    PROVE  /\ Null \in NormalForms(E) /\ Not(Null) \in NormalForms(E)
           /\ \A s \in Symbols \cup Consts : Sym(s) \in NormalForms(E)
           /\ \A s \in Symbols : Not(Sym(s)) \in NormalForms(E)
           /\ \A op \in Logical : \A e, f \in NormalForms(E) : Two(op, e, f) \in NormalForms(E)
           /\ \A e \in E : e.op \in Comparisons /\ BoolComparison(e) = e => e \in NormalForms(E)
<1> DEFINE N == NormalForms(E)
<1>1. N \subseteq E /\ IsNormal(N) /\ \A e \in E : IsNormal(N \cup {e}) => e \in N
  BY NormalFormsNormal
<1> HIDE DEF N
<1>2. ASSUME NEW e \in E, e.op \in {"null", "sym"} PROVE e \in N
  <2>1. IsNormal(N \cup {e})
    BY <1>1, <1>2, OpsDiffer DEF IsNormal
  <2> QED
    BY <1>1, <2>1
<1>3. ASSUME NEW x \in {Null} \cup {Sym(s) : s \in Symbols} PROVE Not(x) \in N
  <2>1. Not(x) \in E /\ Not(x).op = "not" /\ Not(x).l = x
    BY Parts DEF Not
  <2>2. IsNormal(N \cup {Not(x)})
    BY <1>1, <1>3, <2>1, OpsDiffer DEF IsNormal
  <2> QED
    BY <1>1, <2>1, <2>2
<1>4. ASSUME NEW op \in Logical, NEW e \in N, NEW f \in N PROVE Two(op, e, f) \in N
  <2> DEFINE g == Two(op, e, f)
  <2>1. g \in E
    BY <1>1, Parts
  <2>2. g.op = op /\ g.l = e /\ g.r = f
    BY DEF Two
  <2> HIDE DEF g
  <2>3. IsNormal(N \cup {g})
    BY <1>1, <2>2, OpsDiffer DEF IsNormal
  <2>4. g \in N
    BY <1>1, <2>1, <2>3
  <2> QED
    BY <2>4 DEF g
<1>5. ASSUME NEW e \in E, e.op \in Comparisons, BoolComparison(e) = e PROVE e \in N
  <2>1. IsNormal(N \cup {e})
    BY <1>1, <1>5, OpsDiffer DEF IsNormal
  <2> QED
    BY <1>1, <2>1
<1>6. Null \in E /\ Null.op = "null" /\ \A s \in Symbols \cup Consts : Sym(s) \in E /\ Sym(s).op = "sym"
  BY Parts DEF Null, Sym
<1>7. (Null \in N /\ Not(Null) \in N) /\ (\A s \in Symbols \cup Consts : Sym(s) \in N) /\ (\A s \in Symbols : Not(Sym(s)) \in N)
  BY <1>2, <1>3, <1>6
<1> QED
  BY <1>4, <1>5, <1>7 DEF N

(* What a comparison becomes is normal.                                    *)
LEMMA ComparisonsNormal ==
    ASSUME NEW E, NEW height, Whole(E, height), NEW e \in E, e.op \in Comparisons
    PROVE  /\ BoolComparison(e) \in NormalForms(E)
           /\ BoolComparison(e) = e => Complement(e) \in NormalForms(E)
           /\ Complement(e) \in E
<1>1. e = Comp(e.op, e.s, e.t) /\ e.s \in Symbols /\ e.t \in Symbols \cup Consts
  BY KindsOf
<1> DEFINE reduced == e.s \in Bools /\ e.op \in {"=", "!="} /\ IsConst(e.t)
<1>2. ASSUME reduced PROVE BoolComparison(e) \in NormalForms(E)
  <2>1. BoolComparison(e) \in {Sym("n"), Sym("y"), Sym(e.s), Not(Sym(e.s))}
    BY <1>2 DEF BoolComparison
  <2>2. "n" \in Consts /\ "y" \in Consts
    BY DEF Consts
  <2> QED
    BY <1>1, <2>1, <2>2, MakesNormal
<1>3. ASSUME ~reduced PROVE BoolComparison(e) \in NormalForms(E)
  <2>1. BoolComparison(e) = e
    BY <1>3 DEF BoolComparison
  <2> QED
    BY <2>1, MakesNormal
<1>4. Complement(e) = Comp(Opposite[e.op], e.s, e.t) /\ Opposite[e.op] \in Comparisons
  BY OppositeDomain, Opposites DEF Complement, Comparisons
<1>5. Complement(e) \in E
  BY <1>1, <1>4, Parts
<1>6. ASSUME BoolComparison(e) = e PROVE Complement(e) \in NormalForms(E)
  <2>1. ~reduced
    <3>1. reduced => BoolComparison(e).op \in {"sym", "not"}
      BY DEF BoolComparison, Sym, Not
    <3> QED
      BY <1>6, <3>1 DEF Comparisons
  <2> DEFINE f == Complement(e)
  <2>2. f.op = Opposite[e.op] /\ f.s = e.s /\ f.t = e.t
    BY <1>4 DEF Comp
  <2>3. f.op \in {"=", "!="} => e.op \in {"=", "!="}
    BY <2>2, Opposites DEF Comparisons
  <2>4. BoolComparison(f) = f
    BY <2>1, <2>2, <2>3 DEF BoolComparison
  <2> HIDE DEF f
  <2>5. f \in E /\ f.op \in Comparisons
    BY <1>4, <1>5, <2>2 DEF f
  <2>6. f \in NormalForms(E)
    BY <2>4, <2>5, MakesNormal
  <2> QED
    BY <2>6 DEF f
<1> QED
  BY <1>2, <1>3, <1>5, <1>6

(* A normal form stays as it is.                                           *)
LEMMA NormalStays ==
    ASSUME NEW E, NEW height, Whole(E, height), NEW trans, IsTransform(E, trans), NEW e \in NormalForms(E)
    PROVE  trans[e] = e
<1> DEFINE S == {f \in E : f \in NormalForms(E) => trans[f] = f}
<1>1. ASSUME NEW f \in E, \A g \in E : height[g] < height[f] => g \in S
      PROVE  f \in S
  <2> SUFFICES ASSUME f \in NormalForms(E) PROVE trans[f] = f
    OBVIOUS
  <2>0. trans[f] = TransformStep(LAMBDA x : trans[x], f)
    BY DEF IsTransform
  <2>1. CASE f.op \in Logical
    <3>1. f = Two(f.op, f.l, f.r) /\ f.l \in S /\ f.r \in S
      BY <1>1, <2>1, KindsOf
    <3>2. trans[f] = Two(f.op, trans[f.l], trans[f.r])
      BY <2>0, <2>1, OpsDiffer DEF TransformStep
    <3>3. f.l \in NormalForms(E) /\ f.r \in NormalForms(E)
      BY <2>1, NormalFormsNormal DEF IsNormal
    <3> QED
      BY <3>1, <3>2, <3>3
  <2>2. CASE f.op = "not"
    <3>1. f = Not(f.l) /\ f.l \in S /\ f.l \in E
      BY <1>1, <2>2, KindsOf
    <3>2. f.l \in {Null} \cup {Sym(s) : s \in Symbols}
      BY <2>2, NormalFormsNormal DEF IsNormal
    <3>3. f.l.op \in {"null", "sym"} /\ (f.l.op = "sym" => f.l.s \in Symbols)
      BY <3>2 DEF Null, Sym
    <3>4. trans[f.l] = f.l
      <4>1. trans[f.l] = TransformStep(LAMBDA x : trans[x], f.l)
        BY <3>1 DEF IsTransform
      <4> QED
        BY <3>3, <4>1, OpsDiffer DEF TransformStep, Logical
    <3>5. trans[f] = Complement(f.l)
      BY <2>0, <2>2, <3>3, <3>4, OpsDiffer DEF TransformStep
    <3>6. ~(f.l.op = "sym" /\ IsConst(f.l.s)) /\ f.l.op \notin Comparisons
      BY <3>3, SymbolsAssumption DEF IsConst, Comparisons
    <3>7. Complement(f.l) = Not(f.l)
      BY <3>6, OppositeDomain DEF Complement
    <3> QED
      BY <3>1, <3>5, <3>7
  <2>3. CASE f.op \in {"null", "sym"}
    BY <2>0, <2>3, OpsDiffer DEF TransformStep
  <2>4. CASE f.op \in Comparisons
    <3>1. trans[f] = BoolComparison(f)
      BY <2>0, <2>4, OpsDiffer DEF TransformStep
    <3>2. BoolComparison(f) = f
      BY <2>4, NormalFormsNormal DEF IsNormal
    <3> QED
      BY <3>1, <3>2
  <2> QED
    BY <2>1, <2>2, <2>3, <2>4, KindsOf
<1>2. height \in [E -> Nat] /\ e \in E
  BY NormalFormsNormal DEF Whole
<1> HIDE DEF S
<1>3. E \subseteq S
  BY <1>1, <1>2, Induction DEF Inherited
<1> QED
  BY <1>2, <1>3 DEF S

(* The negation of a normal form.                                          *)
LEMMA NegationKeeps ==
    ASSUME NEW E, NEW height, Whole(E, height), NEW v, NEW val, Calculated(E, v, val),
           NEW trans, IsTransform(E, trans), NEW e \in NormalForms(E)
    PROVE  trans[Not(e)] \in NormalForms(E) /\ val[trans[Not(e)]] = 2 - val[e]
<1> DEFINE S == {f \in E : f \in NormalForms(E) => trans[Not(f)] \in NormalForms(E) /\ val[trans[Not(f)]] = 2 - val[f]}
<1>1. ASSUME NEW f \in E, \A g \in E : height[g] < height[f] => g \in S
      PROVE  f \in S
  <2> SUFFICES ASSUME f \in NormalForms(E)
               PROVE  trans[Not(f)] \in NormalForms(E) /\ val[trans[Not(f)]] = 2 - val[f]
    OBVIOUS
  <2>1. Not(f) \in E /\ Not(f).op = "not" /\ Not(f).l = f /\ trans[f] = f
    BY Parts, NormalStays DEF Not
  <2>2. trans[Not(f)] = CASE f.op = "not" -> trans[f.l]
                          [] f.op \in Logical -> trans[Pushed(f)]
                          [] OTHER -> Complement(f)
    <3>1. trans[Not(f)] = TransformStep(LAMBDA x : trans[x], Not(f))
      BY <2>1 DEF IsTransform
    <3> QED
      BY <2>1, <3>1, OpsDiffer DEF TransformStep
  <2>3. val[Not(f)] = 2 - val[f]
    BY <2>1, Values
  <2>4. CASE f.op = "not"
    <3>1. f = Not(f.l) /\ f.l \in E /\ f.l \in {Null} \cup {Sym(s) : s \in Symbols}
      BY <2>4, KindsOf, NormalFormsNormal DEF IsNormal
    <3>2. f.l \in NormalForms(E)
      BY <3>1, MakesNormal
    <3>3. trans[Not(f)] = f.l
      BY <2>2, <2>4, <3>2, NormalStays, OpsDiffer
    <3>4. val[f] = 2 - val[f.l] /\ val[f.l] \in 0..2
      BY <3>1, Values
    <3> QED
      BY <3>2, <3>3, <3>4
  <2>5. CASE f.op \in Logical
    <3>1. /\ f = Two(f.op, f.l, f.r) /\ f.l \in S /\ f.r \in S
          /\ f.l \in NormalForms(E) /\ f.r \in NormalForms(E)
      BY <1>1, <2>5, KindsOf, NormalFormsNormal DEF IsNormal
    <3>2. Dual(f.op) \in Logical
      BY DEF Dual, Logical
    <3>3. {Not(f.l), Not(f.r), Pushed(f)} \subseteq E
      BY <3>1, <3>2, Parts DEF Pushed
    <3>4. trans[Not(f)] = Two(Dual(f.op), trans[Not(f.l)], trans[Not(f.r)])
      <4>1. trans[Not(f)] = trans[Pushed(f)]
        BY <2>2, <2>5, OpsDiffer
      <4>2. Pushed(f).op = Dual(f.op) /\ Pushed(f).l = Not(f.l) /\ Pushed(f).r = Not(f.r)
        BY DEF Pushed, Two
      <4>3. trans[Pushed(f)] = TransformStep(LAMBDA x : trans[x], Pushed(f))
        BY <3>3 DEF IsTransform
      <4> QED
        BY <3>2, <4>1, <4>2, <4>3, OpsDiffer DEF TransformStep
    <3>5. trans[Not(f)] \in NormalForms(E) /\ trans[Not(f)] \in E
      BY <3>1, <3>2, <3>4, MakesNormal, NormalFormsNormal
    <3>6. val[trans[Not(f)]] = LevelValue(Dual(f.op), 2 - val[f.l], 2 - val[f.r])
      BY <3>1, <3>2, <3>4, <3>5, Values
    <3>7. val[Pushed(f)] = LevelValue(Dual(f.op), 2 - val[f.l], 2 - val[f.r])
      BY <3>1, <3>2, <3>3, Values DEF Pushed
    <3>8. val[Pushed(f)] = val[Not(f)]
      BY <2>1, <2>5, <3>3, PushedKeeps
    <3> QED
      BY <2>3, <3>5, <3>6, <3>7, <3>8
  <2>6. CASE f.op \in {"null", "sym"} \cup Comparisons
    <3>1. trans[Not(f)] = Complement(f)
      BY <2>2, <2>6, OpsDiffer
    <3>2. Complement(f) \in NormalForms(E)
      <4>1. CASE f.op \in Comparisons
        BY <4>1, ComparisonsNormal, NormalFormsNormal DEF IsNormal
      <4>2. CASE f.op = "sym" /\ IsConst(f.s)
        <5>1. Complement(f) \in {Sym("y"), Sym("m"), Sym("n")}
          BY <4>2, OppositeDomain DEF Complement, IsConst, Consts, Comparisons
        <5>2. "y" \in Consts /\ "m" \in Consts /\ "n" \in Consts
          BY DEF Consts
        <5> QED
          BY <5>1, <5>2, MakesNormal
      <4>3. CASE f.op \in {"null", "sym"} /\ ~(f.op = "sym" /\ IsConst(f.s))
        <5>1. Complement(f) = Not(f)
          BY <4>3, OppositeDomain DEF Complement, Comparisons
        <5>2. f = Null \/ \E s \in Symbols : f = Sym(s)
          BY <4>3, KindsOf DEF IsConst
        <5> QED
          BY <5>1, <5>2, MakesNormal
      <4> QED
        BY <2>6, <4>1, <4>2, <4>3
    <3>3. val[Complement(f)] = val[Not(f)]
      BY <2>1, <3>2, NormalFormsNormal, ComplementKeeps
    <3> QED
      BY <2>3, <3>1, <3>2, <3>3
  <2> QED
    BY <2>4, <2>5, <2>6, KindsOf
<1>2. height \in [E -> Nat] /\ e \in E
  BY NormalFormsNormal DEF Whole
<1> HIDE DEF S
<1>3. E \subseteq S
  BY <1>1, <1>2, Induction DEF Inherited
<1> QED
  BY <1>2, <1>3 DEF S

(* Normalising a whole expression (expr.c:686-841): negations end up on     *)
(* symbols and no bool is compared with a constant any more, the value is   *)
(* the one the expression had, and normalising it again changes nothing.    *)
THEOREM TransformKeeps ==
    ASSUME NEW E, NEW height, Whole(E, height), NEW v, NEW val, Calculated(E, v, val),
           NEW trans, IsTransform(E, trans), NEW e \in E
    PROVE  /\ val[trans[e]] = val[e]
           /\ trans[e] \in NormalForms(E)
           /\ trans[trans[e]] = trans[e]
<1> DEFINE S == {f \in E : trans[f] \in NormalForms(E) /\ val[trans[f]] = val[f]}
<1>1. ASSUME NEW f \in E, \A g \in E : height[g] < height[f] => g \in S
      PROVE  f \in S
  <2>0. trans[f] = TransformStep(LAMBDA x : trans[x], f)
    BY DEF IsTransform
  <2>1. CASE f.op \in Logical
    <3>1. f = Two(f.op, f.l, f.r) /\ f.l \in S /\ f.r \in S
      BY <1>1, <2>1, KindsOf
    <3>2. trans[f] = Two(f.op, trans[f.l], trans[f.r])
      BY <2>0, <2>1, OpsDiffer DEF TransformStep
    <3>3. trans[f] \in NormalForms(E) /\ trans[f] \in E
      BY <2>1, <3>1, <3>2, MakesNormal, NormalFormsNormal
    <3>4. val[f] = LevelValue(f.op, val[f.l], val[f.r])
      BY <2>1, <3>1, Values
    <3>5. val[trans[f]] = LevelValue(f.op, val[trans[f.l]], val[trans[f.r]])
      BY <2>1, <3>2, <3>3, Values
    <3> QED
      BY <3>1, <3>3, <3>4, <3>5
  <2>2. CASE f.op = "not"
    <3>1. f = Not(f.l) /\ f.l \in S
      BY <1>1, <2>2, KindsOf
    <3> DEFINE x == trans[f.l]
    <3>2. x \in NormalForms(E) /\ val[x] = val[f.l]
      BY <3>1
    <3>3. trans[f] = CASE x.op = "not" -> trans[x.l]
                       [] x.op \in Logical -> trans[Pushed(x)]
                       [] OTHER -> Complement(x)
      BY <2>0, <2>2, OpsDiffer DEF TransformStep
    <3>4. Not(x) \in E /\ Not(x).op = "not" /\ Not(x).l = x /\ trans[x] = x
      BY <3>2, Parts, NormalStays, NormalFormsNormal DEF Not
    <3> HIDE DEF x
    <3>5. trans[Not(x)] = CASE x.op = "not" -> trans[x.l]
                            [] x.op \in Logical -> trans[Pushed(x)]
                            [] OTHER -> Complement(x)
      <4>1. trans[Not(x)] = TransformStep(LAMBDA y : trans[y], Not(x))
        BY <3>4 DEF IsTransform
      <4> QED
        BY <3>4, <4>1, OpsDiffer DEF TransformStep
    <3>6. trans[f] \in NormalForms(E) /\ val[trans[f]] = 2 - val[x]
      BY <3>2, <3>3, <3>5, NegationKeeps
    <3>7. val[f] = 2 - val[f.l]
      BY <3>1, Values
    <3> QED
      BY <3>2, <3>6, <3>7
  <2>3. CASE f.op \in {"null", "sym"}
    <3>1. trans[f] = f
      BY <2>0, <2>3, OpsDiffer DEF TransformStep
    <3>2. f \in NormalForms(E)
      BY <2>3, KindsOf, MakesNormal
    <3> QED
      BY <3>1, <3>2
  <2>4. CASE f.op \in Comparisons
    <3>1. trans[f] = BoolComparison(f)
      BY <2>0, <2>4, OpsDiffer DEF TransformStep
    <3>2. BoolComparison(f) \in NormalForms(E) /\ BoolComparison(f) \in E /\ Sym(f.s) \in E
      BY <2>4, ComparisonsNormal, NormalFormsNormal, KindsOf, Parts
    <3> QED
      BY <2>4, <3>1, <3>2, BoolComparisonKeeps
  <2> QED
    BY <2>1, <2>2, <2>3, <2>4, KindsOf
<1>2. height \in [E -> Nat]
  BY DEF Whole
<1> HIDE DEF S
<1>3. E \subseteq S
  BY <1>1, <1>2, Induction DEF Inherited
<1> QED
  BY <1>3, NormalStays DEF S

(* FOO!=n as FOO, in a whole expression that has been normalised            *)
(* (expr.c:394-418, menu.c:387-398): it keeps whether the expression is n.  *)
THEOREM TransBoolKeepsNo ==
    ASSUME NEW E, NEW height, Whole(E, height), NEW v, NEW val, Calculated(E, v, val),
           NEW trans, IsTransBool(E, trans), NEW e \in NormalForms(E)
    PROVE  (val[trans[e]] = 0) = (val[e] = 0)
<1> DEFINE S == {f \in E : f \in NormalForms(E) => (val[trans[f]] = 0) = (val[f] = 0)}
<1>1. ASSUME NEW f \in E, \A g \in E : height[g] < height[f] => g \in S
      PROVE  f \in S
  <2> SUFFICES ASSUME f \in NormalForms(E) PROVE (val[trans[f]] = 0) = (val[f] = 0)
    OBVIOUS
  <2>0. trans[f] = BareStep(LAMBDA x : trans[x], f) /\ trans[f] \in E
    BY DEF IsTransBool
  <2>1. CASE f.op \in Logical
    <3>1. /\ f = Two(f.op, f.l, f.r) /\ f.l \in S /\ f.r \in S
          /\ f.l \in NormalForms(E) /\ f.r \in NormalForms(E)
      BY <1>1, <2>1, KindsOf, NormalFormsNormal DEF IsNormal
    <3>2. trans[f] = Two(f.op, trans[f.l], trans[f.r]) /\ trans[f.l] \in E /\ trans[f.r] \in E
      <4>1. trans[f.l] \in E /\ trans[f.r] \in E
        BY <3>1 DEF IsTransBool
      <4> QED
        BY <2>0, <2>1, <4>1, OpsDiffer DEF BareStep
    <3>3. val[f] = LevelValue(f.op, val[f.l], val[f.r]) /\ val[f.l] \in 0..2 /\ val[f.r] \in 0..2
      BY <2>1, <3>1, Values
    <3>4. /\ val[trans[f]] = LevelValue(f.op, val[trans[f.l]], val[trans[f.r]])
          /\ val[trans[f.l]] \in 0..2 /\ val[trans[f.r]] \in 0..2
      BY <2>0, <2>1, <3>2, Values
    <3> QED
      BY <2>1, <3>1, <3>3, <3>4, BareKeepsNo
  <2>2. CASE f.op = "not"
    <3>1. f = Not(f.l) /\ f.l \in E /\ f.l \in {Null} \cup {Sym(s) : s \in Symbols}
      BY <2>2, KindsOf, NormalFormsNormal DEF IsNormal
    <3>2. f.l.op \in {"null", "sym"}
      BY <3>1 DEF Null, Sym
    <3>3. trans[f.l] = f.l
      <4>1. trans[f.l] = BareStep(LAMBDA x : trans[x], f.l)
        BY <3>1 DEF IsTransBool
      <4> QED
        BY <3>2, <4>1, OpsDiffer DEF BareStep, Bare
    <3>4. trans[f] = f
      BY <2>0, <2>2, <3>1, <3>3, OpsDiffer DEF BareStep
    <3> QED
      BY <3>4
  <2>3. CASE f.op \notin Logical \cup {"not"}
    <3>1. trans[f] = Bare(f)
      BY <2>0, <2>3 DEF BareStep
    <3> QED
      BY <2>0, <3>1, BareKeepsNo
  <2> QED
    BY <2>1, <2>2, <2>3
<1>2. height \in [E -> Nat] /\ e \in E
  BY NormalFormsNormal DEF Whole
<1> HIDE DEF S
<1>3. E \subseteq S
  BY <1>1, <1>2, Induction DEF Inherited
<1> QED
  BY <1>2, <1>3 DEF S

-----------------------------------------------------------------------------
(* Levels of whole expressions.                                            *)

(* Rounds of a loop.                                                       *)
LEMMA Rounds ==
    ASSUME NEW n \in Nat, NEW S, 0 \in S, \A k \in 0..(n - 1) : k \in S => k + 1 \in S
    PROVE  0..n \subseteq S
<1> DEFINE X == 0..n
           h == [k \in X |-> k]
<1>1. h \in [X -> Nat]
  OBVIOUS
<1>2. ASSUME NEW k \in X, \A j \in X : h[j] < h[k] => j \in S PROVE k \in S
  <2>1. CASE k = 0
    BY <2>1
  <2>2. CASE k # 0
    <3>1. k - 1 \in X /\ k - 1 \in 0..(n - 1) /\ h[k - 1] < h[k] /\ (k - 1) + 1 = k
      BY <2>2
    <3> QED
      BY <1>2, <3>1
  <2> QED
    BY <2>1, <2>2
<1> HIDE DEF X, h
<1>3. X \subseteq S
  BY <1>1, <1>2, Induction DEF Inherited
<1> QED
  BY <1>3 DEF X

(* How deep levels of && and || are nested: as operand of op, and by itself. *)
Inside(nesting, op, e) == IF e.op = op THEN nesting[e] ELSE nesting[e] + 1
IsNesting(E, nesting) ==
    /\ nesting \in [E -> Nat]
    /\ \A e \in E : nesting[e] = CASE e.op = "not" -> nesting[e.l] + 1
                                   [] e.op \in Logical -> Greatest(Inside(nesting, e.op, e.l), Inside(nesting, e.op, e.r))
                                   [] OTHER -> 0

LEMMA NestingType ==
    ASSUME NEW E, NEW nesting, IsNesting(E, nesting)
    PROVE  \A e \in E : nesting[e] \in Nat /\ \A op : Inside(nesting, op, e) \in Nat
<1>1. \A e \in E : nesting[e] \in Nat
  BY DEF IsNesting
<1> QED
  BY <1>1 DEF Inside

(* The functions of expr.c that the recursive operators of KconfigExpr are, *)
(* as the fields of p.                                                     *)
IsLeaves(E, p) ==
    /\ p.leaves \in [Logical -> [E -> Seq(E)]]
    /\ \A op \in Logical : \A e \in E :
         p.leaves[op][e] = LeavesStep(LAMBDA x : p.leaves[op][x], op, e)
IsWithLeaves(E, p) ==
    /\ p.with \in [Logical -> [E \X Seq(E) -> E]]
    /\ \A op \in Logical : \A e \in E : \A ls \in Seq(E) :
         Len(ls) = Len(p.leaves[op][e])
           => p.with[op][<<e, ls>>] = WithLeavesStep(LAMBDA x : p.leaves[op][x], LAMBDA x, s : p.with[op][<<x, s>>], op, e, ls)

LEMMA LeavesOf ==
    ASSUME NEW E, NEW height, Whole(E, height), NEW v, NEW val, Calculated(E, v, val),
           NEW nesting, IsNesting(E, nesting), NEW p, IsLeaves(E, p), NEW op \in Logical, NEW e \in E
    PROVE  LET ls == p.leaves[op][e]
           IN  /\ ls \in Seq(E) /\ Len(ls) \in Nat \ {0} /\ DOMAIN ls = 1..Len(ls)
               /\ IsLevel(op, val, ls, val[e])
               /\ \A i \in DOMAIN ls : ls[i].op # op /\ nesting[ls[i]] < Inside(nesting, op, e)
<1> DEFINE Good(f) == LET ls == p.leaves[op][f]
                      IN  /\ ls \in Seq(E) /\ Len(ls) \in Nat \ {0} /\ DOMAIN ls = 1..Len(ls)
                          /\ IsLevel(op, val, ls, val[f])
                          /\ \A i \in DOMAIN ls : ls[i].op # op /\ nesting[ls[i]] < Inside(nesting, op, f)
           S == {f \in E : Good(f)}
<1>1. ASSUME NEW f \in E, \A g \in E : height[g] < height[f] => g \in S
      PROVE  Good(f)
  <2>1. p.leaves[op][f] = LeavesStep(LAMBDA x : p.leaves[op][x], op, f)
    BY DEF IsLeaves
  <2>2. CASE f.op = op
    <3>1. f = Two(op, f.l, f.r) /\ f.l \in E /\ f.r \in E /\ Good(f.l) /\ Good(f.r)
      BY <1>1, <2>2, KindsOf
    <3> DEFINE s == p.leaves[op][f.l]
               t == p.leaves[op][f.r]
    <3>2. p.leaves[op][f] = s \o t
      BY <2>1, <2>2 DEF LeavesStep
    <3>3. /\ s \in Seq(E) /\ t \in Seq(E) /\ Len(s) \in Nat \ {0} /\ Len(t) \in Nat \ {0}
          /\ DOMAIN s = 1..Len(s) /\ DOMAIN t = 1..Len(t)
          /\ IsLevel(op, val, s, val[f.l]) /\ IsLevel(op, val, t, val[f.r])
          /\ \A i \in DOMAIN s : s[i].op # op /\ nesting[s[i]] < Inside(nesting, op, f.l)
          /\ \A i \in DOMAIN t : t[i].op # op /\ nesting[t[i]] < Inside(nesting, op, f.r)
      BY <3>1
    <3> HIDE DEF s, t, Good
    <3>4. /\ s \o t \in Seq(E) /\ Len(s \o t) = Len(s) + Len(t) /\ DOMAIN (s \o t) = 1..Len(s \o t)
          /\ \A i \in 1..Len(s) : (s \o t)[i] = s[i]
          /\ \A i \in (Len(s) + 1)..(Len(s) + Len(t)) : (s \o t)[i] = t[i - Len(s)] /\ i - Len(s) \in 1..Len(t)
      BY <3>3
    <3>5. val[f] = LevelValue(op, val[f.l], val[f.r]) /\ val[f.l] \in 0..2 /\ val[f.r] \in 0..2
      BY <3>1, Values
    <3>6. IsLevel(op, val, s \o t, val[f])
      BY <3>3, <3>5, LeavesKeep
    <3>7. /\ Inside(nesting, op, f) = Greatest(Inside(nesting, op, f.l), Inside(nesting, op, f.r))
          /\ Inside(nesting, op, f.l) \in Nat /\ Inside(nesting, op, f.r) \in Nat
      BY <2>2, <3>1, OpsDiffer DEF IsNesting, Inside
    <3>8. \A i \in 1..Len(s \o t) : (s \o t)[i].op # op /\ nesting[(s \o t)[i]] < Inside(nesting, op, f)
      <4> SUFFICES ASSUME NEW i \in 1..Len(s \o t)
                   PROVE  (s \o t)[i].op # op /\ nesting[(s \o t)[i]] < Inside(nesting, op, f)
        OBVIOUS
      <4>1. nesting[(s \o t)[i]] \in Nat
        BY <3>4 DEF IsNesting
      <4>2. CASE i \in 1..Len(s)
        BY <3>3, <3>4, <3>7, <4>1, <4>2 DEF Greatest
      <4>3. CASE i \notin 1..Len(s)
        <5>1. i \in (Len(s) + 1)..(Len(s) + Len(t))
          BY <3>3, <3>4, <4>3
        <5> QED
          BY <3>3, <3>4, <3>7, <4>1, <5>1 DEF Greatest
      <4> QED
        BY <4>2, <4>3
    <3>9. Len(s \o t) \in Nat \ {0}
      BY <3>3, <3>4
    <3> QED
      BY <3>2, <3>4, <3>6, <3>8, <3>9 DEF Good
  <2>3. CASE f.op # op
    <3>1. p.leaves[op][f] = <<f>>
      BY <2>1, <2>3 DEF LeavesStep
    <3>2. IsLevel(op, val, <<f>>, val[f])
      BY LeavesKeep
    <3>3. nesting[f] < Inside(nesting, op, f)
      BY <2>3 DEF IsNesting, Inside
    <3>4. <<f>> \in Seq(E) /\ Len(<<f>>) = 1 /\ DOMAIN <<f>> = 1..1 /\ <<f>>[1] = f
      OBVIOUS
    <3> QED
      BY <2>3, <3>1, <3>2, <3>3, <3>4
  <2> QED
    BY <2>2, <2>3
<1>2. height \in [E -> Nat]
  BY DEF Whole
<1> HIDE DEF Good
<1>3. Inherited(E, height, S)
  BY <1>1 DEF Inherited
<1> HIDE DEF S
<1>4. E \subseteq S
  BY <1>2, <1>3, Induction
<1> QED
  BY <1>4 DEF S, Good

(* A tree with other leaves has the value of these.                        *)
LEMMA WithLeavesOf ==
    ASSUME NEW E, NEW height, Whole(E, height), NEW v, NEW val, Calculated(E, v, val),
           NEW nesting, IsNesting(E, nesting), NEW p, IsLeaves(E, p), IsWithLeaves(E, p),
           NEW op \in Logical, NEW e \in E, NEW ls \in Seq(E), Len(ls) = Len(p.leaves[op][e])
    PROVE  LET new == p.with[op][<<e, ls>>]
           IN  /\ new \in E
               /\ IsLevel(op, val, ls, val[new])
               /\ e.op = op => new.op = op
               /\ \A n \in Nat : (\A i \in DOMAIN ls : Inside(nesting, op, ls[i]) <= n) => Inside(nesting, op, new) <= n
<1> DEFINE Good(f, s) == LET new == p.with[op][<<f, s>>]
                         IN  /\ new \in E
                             /\ IsLevel(op, val, s, val[new])
                             /\ f.op = op => new.op = op
                             /\ \A n \in Nat : (\A i \in DOMAIN s : Inside(nesting, op, s[i]) <= n)
                                                 => Inside(nesting, op, new) <= n
           Fits(f, s) == Len(s) = Len(p.leaves[op][f])
           S == {f \in E : \A s \in Seq(E) : Fits(f, s) => Good(f, s)}
<1>1. ASSUME NEW f \in E, \A g \in E : height[g] < height[f] => g \in S, NEW s \in Seq(E), Fits(f, s)
      PROVE  Good(f, s)
  <2>0. p.with[op][<<f, s>>] \in E
    BY DEF IsWithLeaves
  <2>1. p.with[op][<<f, s>>] = WithLeavesStep(LAMBDA x : p.leaves[op][x], LAMBDA x, q : p.with[op][<<x, q>>], op, f, s)
    BY <1>1 DEF IsWithLeaves
  <2>2. CASE f.op = op
    <3>1. f = Two(op, f.l, f.r) /\ f.l \in S /\ f.r \in S /\ f.l \in E /\ f.r \in E
      BY <1>1, <2>2, KindsOf
    <3> DEFINE k == Len(p.leaves[op][f.l])
               j == Len(p.leaves[op][f.r])
               a == SubSeq(s, 1, k)
               b == SubSeq(s, k + 1, Len(s))
    <3>2. k \in Nat \ {0} /\ j \in Nat \ {0} /\ Len(p.leaves[op][f]) = k + j
      <4>1. p.leaves[op][f] = p.leaves[op][f.l] \o p.leaves[op][f.r]
        BY <2>2 DEF IsLeaves, LeavesStep
      <4>2. p.leaves[op][f.l] \in Seq(E) /\ p.leaves[op][f.r] \in Seq(E)
        BY <3>1, LeavesOf
      <4>3. k \in Nat \ {0} /\ j \in Nat \ {0}
        BY <3>1, LeavesOf
      <4> QED
        BY <4>1, <4>2, <4>3
    <3>3. p.with[op][<<f, s>>] = Two(op, p.with[op][<<f.l, a>>], p.with[op][<<f.r, b>>])
      BY <2>1, <2>2 DEF WithLeavesStep
    <3>4. Len(s) = k + j
      BY <1>1, <3>2
    <3> HIDE DEF k, j
    <3>5. /\ a \in Seq(E) /\ b \in Seq(E) /\ Len(a) = k /\ Len(b) = j /\ s = a \o b
          /\ \A i \in DOMAIN a : a[i] = s[i] /\ i \in DOMAIN s
          /\ \A i \in DOMAIN b : b[i] = s[k + i] /\ k + i \in DOMAIN s
      <4>1. a \in Seq(E) /\ Len(a) = k /\ \A i \in DOMAIN a : i \in 1..k /\ a[i] = s[i] /\ i \in DOMAIN s
        BY <3>2, <3>4
      <4>2. b \in Seq(E) /\ Len(b) = j /\ \A i \in DOMAIN b : i \in 1..j /\ b[i] = s[k + i] /\ k + i \in DOMAIN s
        BY <3>2, <3>4
      <4>3. s = a \o b
        BY <3>2, <3>4
      <4> QED
        BY <4>1, <4>2, <4>3
    <3> HIDE DEF a, b
    <3>6. Fits(f.l, a) /\ Fits(f.r, b)
      BY <1>1, <3>5 DEF k, j
    <3> DEFINE l == p.with[op][<<f.l, a>>]
               r == p.with[op][<<f.r, b>>]
    <3>7. Good(f.l, a) /\ Good(f.r, b)
      <4> HIDE DEF Good, Fits
      <4> QED
        BY <3>1, <3>5, <3>6
    <3>8. /\ l \in E /\ r \in E /\ IsLevel(op, val, a, val[l]) /\ IsLevel(op, val, b, val[r])
          /\ \A n \in Nat : (\A i \in DOMAIN a : Inside(nesting, op, a[i]) <= n) => Inside(nesting, op, l) <= n
          /\ \A n \in Nat : (\A i \in DOMAIN b : Inside(nesting, op, b[i]) <= n) => Inside(nesting, op, r) <= n
      BY <3>7
    <3> DEFINE new == p.with[op][<<f, s>>]
    <3>9. new = Two(op, l, r)
      BY <3>3
    <3> HIDE DEF l, r
    <3>10. new.op = op /\ new.l = l /\ new.r = r
      BY <3>9 DEF Two
    <3>11. val[new] = LevelValue(op, val[l], val[r]) /\ val[l] \in 0..2 /\ val[r] \in 0..2
      BY <2>0, <3>8, <3>9, Values
    <3>12. IsLevel(op, val, s, val[new])
      BY <3>5, <3>8, <3>11, LeavesKeep
    <3>13. Inside(nesting, op, new) = Greatest(Inside(nesting, op, l), Inside(nesting, op, r))
      BY <2>0, <3>10, OpsDiffer DEF IsNesting, Inside
    <3>14. ASSUME NEW n \in Nat, \A i \in DOMAIN s : Inside(nesting, op, s[i]) <= n
           PROVE  Inside(nesting, op, new) <= n
      <4>1. Inside(nesting, op, l) <= n
        <5>1. \A i \in DOMAIN a : Inside(nesting, op, a[i]) <= n
          BY <3>5, <3>14
        <5> QED
          BY <3>8, <5>1
      <4>2. Inside(nesting, op, r) <= n
        <5>1. \A i \in DOMAIN b : Inside(nesting, op, b[i]) <= n
          BY <3>5, <3>14
        <5> QED
          BY <3>8, <5>1
      <4> QED
        BY <3>13, <4>1, <4>2 DEF Greatest
    <3> QED
      BY <2>0, <3>10, <3>12, <3>14
  <2>3. CASE f.op # op
    <3>1. Len(s) = 1
      <4>1. p.leaves[op][f] = <<f>>
        BY <2>3 DEF IsLeaves, LeavesStep
      <4> QED
        BY <1>1, <4>1
    <3>2. s[1] \in E /\ DOMAIN s = {1}
      <4>1. s \in Seq(E) /\ DOMAIN s = 1..Len(s) /\ \A i \in 1..Len(s) : s[i] \in E
        OBVIOUS
      <4> QED
        BY <3>1, <4>1
    <3>3. p.with[op][<<f, s>>] = s[1]
      BY <2>1, <2>3 DEF WithLeavesStep
    <3>4. IsLevel(op, val, s, val[s[1]])
      <4>1. val[s[1]] \in 0..2
        BY <3>2, Values
      <4> QED
        BY <3>2, <4>1 DEF IsLevel, LevelValue, Least, Greatest
    <3>5. \A n \in Nat : (\A i \in DOMAIN s : Inside(nesting, op, s[i]) <= n) => Inside(nesting, op, s[1]) <= n
      BY <3>2
    <3> QED
      BY <2>0, <2>3, <3>3, <3>4, <3>5
  <2> QED
    BY <2>2, <2>3
<1>2. height \in [E -> Nat]
  BY DEF Whole
<1>3. Fits(e, ls)
  OBVIOUS
<1> HIDE DEF Good, Fits
<1>4. Inherited(E, height, S)
  BY <1>1 DEF Inherited
<1> HIDE DEF S
<1>5. E \subseteq S
  BY <1>2, <1>4, Induction
<1> QED
  BY <1>3, <1>5 DEF S, Good

(* Round k of a loop over pairs of operands.                               *)
LEMMA Pairs ==
    ASSUME NEW s, NEW n \in Nat, NEW m \in Nat, Len(s) = n, NEW k \in 0..(m * n - 1)
    PROVE  Row(k, s) \in 1..m /\ Column(k, s) \in 1..n
BY DEF Row, Column

IsCancelling(E, p, op, e1, e2, q) ==
    LET n == Len(p.leaves[op][e1]) * Len(p.leaves[op][e2])
    IN  \E r \in [0..n -> Seq(E) \X Seq(E)] :
          /\ r[0] = <<p.leaves[op][e1], p.leaves[op][e2]>>
          /\ \A k \in 0..(n - 1) : r[k + 1] = CancelRound(LAMBDA x, y : p.eq[<<x, y>>], op, r[k], k)
          /\ q = <<p.with[op][<<e1, r[n][1]>>], p.with[op][<<e2, r[n][2]>>]>>
IsCancel(E, p) ==
    /\ p.cancel \in [Logical -> [E \X E -> E \X E]]
    /\ \A op \in Logical : \A e1, e2 \in E : IsCancelling(E, p, op, e1, e2, p.cancel[op][<<e1, e2>>])
IsEliminateEq(E, p) ==
    /\ p.elim \in [E \X E -> E \X E]
    /\ \A e1, e2 \in E :
         p.elim[<<e1, e2>>] = EliminateEqStep(LAMBDA op, x, y : p.cancel[op][<<x, y>>], LAMBDA x : p.yn[x], e1, e2)
IsExprEq(E, p) ==
    /\ p.eq \in [E \X E -> BOOLEAN]
    /\ \A e1, e2 \in E :
         p.eq[<<e1, e2>>] = ExprEqStep(LAMBDA x, y : p.eq[<<x, y>>], LAMBDA x, y : p.elim[<<x, y>>], e1, e2)
IsComparison(E, p) ==
    IsLeaves(E, p) /\ IsWithLeaves(E, p) /\ IsYn(E, p.yn) /\ IsCancel(E, p) /\ IsEliminateEq(E, p) /\ IsExprEq(E, p)

LEMMA LevelsOfLevels ==
    ASSUME NEW op \in Logical, NEW i \in 0..2, NEW j \in 0..2, NEW k \in 0..2
    PROVE  /\ LevelValue(op, i, j) \in 0..2
           /\ LevelValue(op, LevelValue(op, i, j), k) = LevelValue(op, i, LevelValue(op, j, k))
           /\ LevelValue(op, i, IF op = "and" THEN 2 ELSE 0) = i
BY DEF LevelValue, Least, Greatest, Logical

(* What __expr_eliminate_eq takes off two levels has one value c.           *)
LEMMA CancelTakes ==
    ASSUME NEW E, NEW height, Whole(E, height), NEW v, NEW val, Calculated(E, v, val),
           NEW nesting, IsNesting(E, nesting), NEW p, IsComparison(E, p),
           NEW op \in Logical, NEW e1 \in E, NEW e2 \in E,
           \A x, y \in E : nesting[x] < Inside(nesting, op, e1) /\ p.eq[<<x, y>>] => val[x] = val[y]
    PROVE  LET q == p.cancel[op][<<e1, e2>>]
           IN  /\ q[1] \in E /\ q[2] \in E
               /\ \E c \in 0..2 : val[e1] = LevelValue(op, val[q[1]], c) /\ val[e2] = LevelValue(op, val[q[2]], c)
               /\ e1.op = op => q[1].op = op
               /\ e2.op = op => q[2].op = op
<1> DEFINE s1 == p.leaves[op][e1]
           s2 == p.leaves[op][e2]
           q == p.cancel[op][<<e1, e2>>]
           n == Len(s1) * Len(s2)
           d == Inside(nesting, op, e1)
           neutral == IF op = "and" THEN 2 ELSE 0
<1>1. /\ s1 \in Seq(E) /\ Len(s1) \in Nat \ {0} /\ DOMAIN s1 = 1..Len(s1) /\ IsLevel(op, val, s1, val[e1])
      /\ s2 \in Seq(E) /\ Len(s2) \in Nat \ {0} /\ DOMAIN s2 = 1..Len(s2) /\ IsLevel(op, val, s2, val[e2])
      /\ \A i \in DOMAIN s1 : nesting[s1[i]] < d
  BY LeavesOf DEF IsComparison
<1>2. val[e1] \in 0..2 /\ val[e2] \in 0..2 /\ d \in Nat \ {0}
  <2>1. d \in Nat /\ nesting[s1[1]] < d /\ nesting[s1[1]] \in Nat
    <3>1. s1[1] \in E /\ 1 \in DOMAIN s1
      BY <1>1
    <3> QED
      BY <1>1, <3>1, NestingType
  <2> QED
    BY <2>1, Values
<1>3. PICK r \in [0..n -> Seq(E) \X Seq(E)] :
        /\ r[0] = <<s1, s2>>
        /\ \A k \in 0..(n - 1) : r[k + 1] = CancelRound(LAMBDA x, y : p.eq[<<x, y>>], op, r[k], k)
        /\ q = <<p.with[op][<<e1, r[n][1]>>], p.with[op][<<e2, r[n][2]>>]>>
  <2>1. IsCancel(E, p)
    BY DEF IsComparison
  <2>2. IsCancelling(E, p, op, e1, e2, q)
    BY <2>1 DEF IsCancel
  <2> QED
    BY <2>2 DEF IsCancelling
<1> HIDE DEF s1, s2, q, d
<1>4. n \in Nat
  BY <1>1
<1> HIDE DEF n
<1> DEFINE Taken(l1, l2, c) == \E n1, n2 \in 0..2 : /\ IsLevel(op, val, l1, n1) /\ IsLevel(op, val, l2, n2)
                                                    /\ val[e1] = LevelValue(op, n1, c) /\ val[e2] = LevelValue(op, n2, c)
           Good(k) == LET l1 == r[k][1]
                          l2 == r[k][2]
                      IN  /\ l1 \in Seq(E) /\ Len(l1) = Len(s1) /\ DOMAIN l1 = 1..Len(s1)
                          /\ l2 \in Seq(E) /\ Len(l2) = Len(s2) /\ DOMAIN l2 = 1..Len(s2)
                          /\ \A i \in 1..Len(s1) : nesting[l1[i]] < d
                          /\ \E c \in 0..2 : Taken(l1, l2, c)
           S == {k \in 0..n : Good(k)}
<1>5. Good(0)
  <2>1. neutral \in 0..2 /\ val[e1] = LevelValue(op, val[e1], neutral) /\ val[e2] = LevelValue(op, val[e2], neutral)
    BY <1>2, LevelsOfLevels
  <2>2. Taken(s1, s2, neutral)
    BY <1>1, <1>2, <2>1
  <2>3. r[0] = <<s1, s2>>
    BY <1>3
  <2>4. r[0][1] = s1 /\ r[0][2] = s2
    BY <2>3
  <2> HIDE DEF Taken, neutral
  <2> QED
    BY <1>1, <2>1, <2>2, <2>4
<1>6. ASSUME NEW k \in 0..(n - 1), Good(k) PROVE Good(k + 1)
  <2> DEFINE l1 == r[k][1]
             l2 == r[k][2]
             i == Row(k, l2)
             j == Column(k, l2)
             m1 == [l1 EXCEPT ![i] = Neutral(op)]
             m2 == [l2 EXCEPT ![j] = Neutral(op)]
  <2>1. /\ l1 \in Seq(E) /\ Len(l1) = Len(s1) /\ DOMAIN l1 = 1..Len(s1)
        /\ l2 \in Seq(E) /\ Len(l2) = Len(s2) /\ DOMAIN l2 = 1..Len(s2)
        /\ \A h \in 1..Len(s1) : nesting[l1[h]] < d
    BY <1>6
  <2>2. PICK c \in 0..2 : Taken(l1, l2, c)
    BY <1>6
  <2>3. i \in 1..Len(s1) /\ j \in 1..Len(s2)
    <3> HIDE DEF l2
    <3>1. k \in 0..(Len(s1) * Len(s2) - 1)
      BY DEF n
    <3> QED
      BY <1>1, <2>1, <3>1, Pairs
  <2>4. r[k] = <<l1, l2>>
    <3>1. k \in 0..n
      BY <1>4
    <3>2. r[k] \in Seq(E) \X Seq(E)
      BY <1>3, <3>1
    <3> QED
      BY <3>2
  <2>5. r[k + 1] = r[k] \/ (p.eq[<<l1[i], l2[j]>>] /\ r[k + 1] = <<m1, m2>>)
    <3>1. r[k + 1] = CancelRound(LAMBDA x, y : p.eq[<<x, y>>], op, r[k], k)
      BY <1>3
    <3> QED
      BY <3>1 DEF CancelRound, Cancelled
  <2>6. CASE r[k + 1] = r[k]
    BY <1>6, <2>6
  <2>7. CASE p.eq[<<l1[i], l2[j]>>] /\ r[k + 1] = <<m1, m2>>
    <3> HIDE DEF l1, l2, i, j
    <3>1. l1[i] \in E /\ l2[j] \in E /\ val[l1[i]] = val[l2[j]] /\ val[l1[i]] \in 0..2
      <4>1. l1[i] \in E /\ l2[j] \in E /\ nesting[l1[i]] < d
        BY <2>1, <2>3
      <4> QED
        BY <2>7, <4>1, Values DEF d
    <3>2. Neutral(op) \in E /\ nesting[Neutral(op)] = 0
      <4>1. Neutral(op) \in E /\ Neutral(op).op = "sym"
        BY Parts DEF Neutral, Sym
      <4> QED
        BY <4>1, OpsDiffer DEF IsNesting
    <3>3. /\ m1 \in Seq(E) /\ Len(m1) = Len(s1) /\ DOMAIN m1 = 1..Len(s1)
          /\ m2 \in Seq(E) /\ Len(m2) = Len(s2) /\ DOMAIN m2 = 1..Len(s2)
          /\ \A h \in 1..Len(s1) : nesting[m1[h]] < d
      BY <1>2, <2>1, <2>3, <3>2
    <3> HIDE DEF m1, m2
    <3>11. DOMAIN m1 # {} /\ DOMAIN m2 # {} /\ DOMAIN l1 # {} /\ DOMAIN l2 # {}
      BY <1>1, <2>1, <3>3
    <3>4. PICK n1 \in 0..2, n2 \in 0..2 :
            /\ IsLevel(op, val, l1, n1) /\ IsLevel(op, val, l2, n2)
            /\ val[e1] = LevelValue(op, n1, c) /\ val[e2] = LevelValue(op, n2, c)
      BY <2>2
    <3>5. PICK k1 \in 0..2 : IsLevel(op, val, m1, k1)
      BY <3>3, <3>11, LevelHasValue
    <3>6. PICK k2 \in 0..2 : IsLevel(op, val, m2, k2)
      BY <3>3, <3>11, LevelHasValue
    <3> DEFINE x == val[l1[i]]
    <3>7. n1 = LevelValue(op, k1, x) /\ n2 = LevelValue(op, k2, x)
      <4>1. l1 \in Seq(E) /\ i \in DOMAIN l1 /\ IsLevel(op, val, [l1 EXCEPT ![i] = Neutral(op)], k1)
        BY <2>1, <2>3, <3>5 DEF m1
      <4>2. l2 \in Seq(E) /\ j \in DOMAIN l2 /\ IsLevel(op, val, [l2 EXCEPT ![j] = Neutral(op)], k2)
        BY <2>1, <2>3, <3>6 DEF m2
      <4>3. n1 = LevelValue(op, k1, val[l1[i]])
        BY <3>2, <3>4, <4>1, NeutralLevel
      <4>4. n2 = LevelValue(op, k2, val[l2[j]])
        BY <3>2, <3>4, <4>2, NeutralLevel
      <4> QED
        BY <3>1, <4>3, <4>4
    <3>8. /\ LevelValue(op, x, c) \in 0..2
          /\ val[e1] = LevelValue(op, k1, LevelValue(op, x, c))
          /\ val[e2] = LevelValue(op, k2, LevelValue(op, x, c))
      <4> HIDE DEF x
      <4>1. x \in 0..2
        BY <3>1 DEF x
      <4> QED
        BY <3>4, <3>7, <4>1, LevelsOfLevels
    <3> HIDE DEF x
    <3>9. Taken(m1, m2, LevelValue(op, x, c))
      BY <3>5, <3>6, <3>8
    <3>10. r[k + 1][1] = m1 /\ r[k + 1][2] = m2
      BY <2>7
    <3> HIDE DEF Taken
    <3> QED
      BY <3>3, <3>8, <3>9, <3>10
  <2> QED
    BY <2>5, <2>6, <2>7
<1> HIDE DEF Good
<1>7. n \in S
  <2>1. 0 \in S /\ \A k \in 0..(n - 1) : k \in S => k + 1 \in S
    BY <1>4, <1>5, <1>6
  <2> HIDE DEF S
  <2>2. 0..n \subseteq S
    BY <1>4, <2>1, Rounds
  <2> QED
    BY <1>4, <2>2
<1> DEFINE l1 == r[n][1]
           l2 == r[n][2]
<1>8. /\ l1 \in Seq(E) /\ Len(l1) = Len(s1)
      /\ l2 \in Seq(E) /\ Len(l2) = Len(s2)
      /\ \E c \in 0..2 : Taken(l1, l2, c)
  BY <1>7 DEF Good
<1> HIDE DEF l1, l2
<1>9. q[1] = p.with[op][<<e1, l1>>] /\ q[2] = p.with[op][<<e2, l2>>]
  BY <1>3 DEF l1, l2
<1>10. ASSUME NEW e \in E, NEW l \in Seq(E), Len(l) = Len(p.leaves[op][e])
       PROVE  LET new == p.with[op][<<e, l>>]
              IN  new \in E /\ IsLevel(op, val, l, val[new]) /\ (e.op = op => new.op = op)
  BY <1>10, WithLeavesOf DEF IsComparison
<1>11. /\ q[1] \in E /\ IsLevel(op, val, l1, val[q[1]]) /\ (e1.op = op => q[1].op = op)
       /\ q[2] \in E /\ IsLevel(op, val, l2, val[q[2]]) /\ (e2.op = op => q[2].op = op)
  BY <1>8, <1>9, <1>10 DEF s1, s2
<1>12. PICK c \in 0..2 : Taken(l1, l2, c)
  BY <1>8
<1>13. val[e1] = LevelValue(op, val[q[1]], c) /\ val[e2] = LevelValue(op, val[q[2]], c)
  <2>1. PICK n1 \in 0..2, n2 \in 0..2 :
            /\ IsLevel(op, val, l1, n1) /\ IsLevel(op, val, l2, n2)
            /\ val[e1] = LevelValue(op, n1, c) /\ val[e2] = LevelValue(op, n2, c)
    BY <1>12
  <2>2. n1 = val[q[1]] /\ n2 = val[q[2]]
    <3>1. DOMAIN l1 # {} /\ DOMAIN l2 # {}
      <4>1. DOMAIN l1 = 1..Len(s1) /\ DOMAIN l2 = 1..Len(s2)
        BY <1>7 DEF Good, l1, l2
      <4> QED
        BY <1>1, <4>1
    <3> QED
      BY <1>8, <1>11, <2>1, <3>1, LevelHasValue
  <2> QED
    BY <2>1, <2>2
<1> QED
  BY <1>11, <1>13 DEF q

(* What expr_eq finds equal, whatever the order of the operands and however *)
(* deep (expr.c:251-296), has equal values.                                *)
THEOREM ExprEqMeansEqual ==
    ASSUME NEW E, NEW height, Whole(E, height), NEW v, NEW val, Calculated(E, v, val),
           NEW nesting, IsNesting(E, nesting), NEW p, IsComparison(E, p),
           NEW e1 \in E, NEW e2 \in E, p.eq[<<e1, e2>>]
    PROVE  val[e1] = val[e2]
<1> DEFINE S == {x \in E : \A y \in E : p.eq[<<x, y>>] => val[x] = val[y]}
<1>1. ASSUME NEW x \in E, \A g \in E : nesting[g] < nesting[x] => g \in S, NEW y \in E, p.eq[<<x, y>>]
      PROVE  val[x] = val[y]
  <2>1. ExprEqStep(LAMBDA a, b : p.eq[<<a, b>>], LAMBDA a, b : p.elim[<<a, b>>], x, y)
    BY <1>1 DEF IsComparison, IsExprEq
  <2>2. x.op = y.op
    BY <2>1 DEF ExprEqStep
  <2>3. CASE x.op = "not"
    <3>1. x = Not(x.l) /\ x.l \in E /\ y = Not(y.l) /\ y.l \in E
      BY <2>2, <2>3, KindsOf
    <3>2. nesting[x.l] < nesting[x]
      <4>1. nesting[x] = nesting[x.l] + 1
        BY <2>3, OpsDiffer DEF IsNesting
      <4> QED
        BY <3>1, <4>1, NestingType
    <3>3. p.eq[<<x.l, y.l>>]
      BY <2>1, <2>3, OpsDiffer DEF ExprEqStep
    <3>4. val[x.l] = val[y.l]
      BY <1>1, <3>1, <3>2, <3>3
    <3>5. val[x] = 2 - val[x.l] /\ val[y] = 2 - val[y.l]
      BY <3>1, Values
    <3> QED
      BY <3>4, <3>5
  <2>4. CASE x.op \in Logical
    <3> DEFINE op == x.op
               q == p.cancel[op][<<x, y>>]
               r == p.elim[<<x, y>>]
    <3>1. r[1] = r[2]
      BY <2>1, <2>4, OpsDiffer DEF ExprEqStep
    <3>2. \A a, b \in E : nesting[a] < Inside(nesting, op, x) /\ p.eq[<<a, b>>] => val[a] = val[b]
      <4>1. Inside(nesting, op, x) = nesting[x]
        BY DEF Inside
      <4> QED
        BY <1>1, <4>1
    <3>3. /\ q[1] \in E /\ q[2] \in E /\ q[1].op = op /\ q[2].op = op
          /\ \E c \in 0..2 : val[x] = LevelValue(op, val[q[1]], c) /\ val[y] = LevelValue(op, val[q[2]], c)
      <4> HIDE DEF op
      <4>1. op \in Logical /\ x.op = op /\ y.op = op
        BY <2>2, <2>4 DEF op
      <4> QED
        BY <3>2, <4>1, CancelTakes
    <3>4. r = <<p.yn[q[1]], p.yn[q[2]]>>
      <4>1. x # Null /\ y # Null
        BY <2>2, <2>4, OpsDiffer DEF Null
      <4>2. r = EliminateEqStep(LAMBDA o, a, b : p.cancel[o][<<a, b>>], LAMBDA a : p.yn[a], x, y)
        BY DEF IsComparison, IsEliminateEq
      <4> QED
        BY <2>4, <3>3, <4>1, <4>2 DEF EliminateEqStep
    <3>5. val[p.yn[q[1]]] = val[q[1]] /\ val[p.yn[q[2]]] = val[q[2]]
      <4>1. IsYn(E, p.yn)
        BY DEF IsComparison
      <4>2. q[1] \in E /\ q[2] \in E
        BY <3>3
      <4> HIDE DEF q
      <4> QED
        BY <4>1, <4>2, EliminateYnKeeps
    <3>6. val[q[1]] = val[q[2]]
      <4>1. r[1] = p.yn[q[1]] /\ r[2] = p.yn[q[2]]
        BY <3>4
      <4> QED
        BY <3>1, <3>5, <4>1
    <3> QED
      BY <3>3, <3>6
  <2>5. CASE x.op \notin Logical /\ x.op # "not"
    BY <2>1, <2>5 DEF ExprEqStep
  <2> QED
    BY <2>3, <2>4, <2>5
<1>2. nesting \in [E -> Nat]
  BY DEF IsNesting
<1>3. Inherited(E, nesting, S)
  BY <1>1 DEF Inherited
<1> HIDE DEF S
<1>4. E \subseteq S
  BY <1>2, <1>3, Induction
<1> QED
  BY <1>4 DEF S

(* Cancelling what two expressions have in common (expr.c:220-242) never    *)
(* changes which of them implies the other: in particular, when y is left  *)
(* of the second one, the first one implies it.  This is how menu.c:463-480 *)
(* finds that an entry depends on what the one above depends on.           *)
THEOREM CancellingKeepsOrder ==
    ASSUME NEW E, NEW height, Whole(E, height), NEW v, NEW val, Calculated(E, v, val),
           NEW nesting, IsNesting(E, nesting), NEW p, IsComparison(E, p), NEW e1 \in E, NEW e2 \in E
    PROVE  LET left == p.elim[<<e1, e2>>]
           IN  /\ val[left[1]] <= val[left[2]] => val[e1] <= val[e2]
               /\ val[left[2]] <= val[left[1]] => val[e2] <= val[e1]
               /\ left[2] = Sym("y") => val[e1] <= val[e2]
<1> DEFINE Order(x, y, a, b) == /\ a \in E /\ b \in E
                                /\ val[a] <= val[b] => val[x] <= val[y]
                                /\ val[b] <= val[a] => val[y] <= val[x]
           left == p.elim[<<e1, e2>>]
<1>1. ASSUME NEW op \in Logical, NEW x \in E, NEW y \in E
      PROVE  Order(x, y, p.cancel[op][<<x, y>>][1], p.cancel[op][<<x, y>>][2])
  <2> DEFINE q == p.cancel[op][<<x, y>>]
  <2>1. \A g, h \in E : nesting[g] < Inside(nesting, op, x) /\ p.eq[<<g, h>>] => val[g] = val[h]
    BY ExprEqMeansEqual
  <2>2. q[1] \in E /\ q[2] \in E
    BY <2>1, CancelTakes
  <2>3. PICK c \in 0..2 : val[x] = LevelValue(op, val[q[1]], c) /\ val[y] = LevelValue(op, val[q[2]], c)
    BY <2>1, CancelTakes
  <2> HIDE DEF q
  <2>4. val[q[1]] \in 0..2 /\ val[q[2]] \in 0..2
    BY <2>2, Values
  <2>5. Order(x, y, q[1], q[2])
    BY <2>2, <2>3, <2>4 DEF LevelValue, Least, Greatest
  <2> QED
    BY <2>5 DEF q
<1> DEFINE a == IF e1.op \in Logical THEN p.cancel[e1.op][<<e1, e2>>] ELSE <<e1, e2>>
           b == IF a[1].op # a[2].op /\ a[2].op \in Logical THEN p.cancel[a[2].op][<<a[1], a[2]>>] ELSE a
<1>2. Order(e1, e2, a[1], a[2])
  <2>1. CASE e1.op \in Logical
    BY <1>1, <2>1
  <2>2. CASE e1.op \notin Logical
    BY <2>2
  <2> QED
    BY <2>1, <2>2
<1>3. e1 # Null /\ e2 # Null => left = <<p.yn[b[1]], p.yn[b[2]]>>
  <2>1. left = EliminateEqStep(LAMBDA o, x, y : p.cancel[o][<<x, y>>], LAMBDA x : p.yn[x], e1, e2)
    BY DEF IsComparison, IsEliminateEq
  <2> QED
    BY <2>1 DEF EliminateEqStep
<1>4. e1 = Null \/ e2 = Null => left = <<e1, e2>>
  <2>1. left = EliminateEqStep(LAMBDA o, x, y : p.cancel[o][<<x, y>>], LAMBDA x : p.yn[x], e1, e2)
    BY DEF IsComparison, IsEliminateEq
  <2> QED
    BY <2>1 DEF EliminateEqStep
<1> HIDE DEF a
<1>5. Order(e1, e2, b[1], b[2])
  <2>1. CASE a[1].op # a[2].op /\ a[2].op \in Logical
    <3>1. Order(a[1], a[2], b[1], b[2])
      BY <1>1, <1>2, <2>1
    <3> HIDE DEF b
    <3> QED
      BY <1>2, <3>1
  <2>2. CASE ~(a[1].op # a[2].op /\ a[2].op \in Logical)
    BY <1>2, <2>2
  <2> QED
    BY <2>1, <2>2
<1> HIDE DEF b
<1>6. Order(e1, e2, left[1], left[2])
  <2>1. CASE e1 # Null /\ e2 # Null
    <3>1. val[p.yn[b[1]]] = val[b[1]] /\ val[p.yn[b[2]]] = val[b[2]] /\ p.yn[b[1]] \in E /\ p.yn[b[2]] \in E
      <4>1. IsYn(E, p.yn)
        BY DEF IsComparison
      <4>2. b[1] \in E /\ b[2] \in E
        BY <1>5
      <4>3. p.yn[b[1]] \in E /\ p.yn[b[2]] \in E
        BY <4>1, <4>2 DEF IsYn
      <4> QED
        BY <4>1, <4>2, <4>3, EliminateYnKeeps
    <3>2. left[1] = p.yn[b[1]] /\ left[2] = p.yn[b[2]]
      BY <1>3, <2>1
    <3> HIDE DEF left
    <3> QED
      BY <1>5, <3>1, <3>2
  <2>2. CASE e1 = Null \/ e2 = Null
    <3>1. left[1] = e1 /\ left[2] = e2
      BY <1>4, <2>2
    <3> HIDE DEF left
    <3> QED
      BY <3>1
  <2> QED
    BY <2>1, <2>2
<1>7. left[2] = Sym("y") => val[left[1]] <= val[left[2]]
  <2> HIDE DEF left
  <2> SUFFICES ASSUME left[2] = Sym("y") PROVE val[left[1]] <= val[left[2]]
    OBVIOUS
  <2>1. val[left[2]] = 2 /\ val[left[1]] \in 0..2
    BY <1>6, Values DEF SymValue
  <2> QED
    BY <2>1
<1> QED
  BY <1>6, <1>7

-----------------------------------------------------------------------------
(* expr_eliminate_dups.                                                    *)
IsDups(E, p) ==
    /\ p.dups \in [E -> [e : E, count : Nat]]
    /\ \A e \in E : e.op \notin Logical => p.dups[e] = [e |-> e, count |-> 0]
    /\ \A e \in E : e.op \in Logical =>
         LET first == p.leaves[e.op][e]
             n == Len(first) * Len(first)
         IN  \E r \in [0..n -> [ls : Seq(E), count : Nat]] :
               /\ r[0] = [ls |-> first, count |-> 0]
               /\ \A k \in 0..(n - 1) :
                    r[k + 1] = JoinRound(LAMBDA x : p.dups[x], LAMBDA x, y : p.eq[<<x, y>>], e.op, r[k], k)
               /\ p.dups[e] = [e |-> p.with[e.op][<<e, r[n].ls>>], count |-> r[n].count]

(* What is joined to is no level.                                          *)
LEMMA JoinTypes ==
    ASSUME NEW E, NEW height, Whole(E, height), NEW op \in Logical, NEW e1 \in E, NEW e2 \in E
    PROVE  LET join == JoinUnequal(op, e1, e2)
           IN  join = Null \/ (join \in E /\ join.op \in Comparisons \cup {"sym"})
<1> DEFINE join == JoinUnequal(op, e1, e2)
           a == About(e1)
           Fine(e) == e \in E /\ e.op \in Comparisons \cup {"sym"}
<1>1. CASE ~SameSymbol(e1, e2)
  BY <1>1 DEF JoinUnequal
<1>2. CASE SameSymbol(e1, e2)
  <2>1. a \in Symbols /\ {"y", "m", "n"} \subseteq Consts
    BY <1>2 DEF SameSymbol, Consts
  <2>2. \A c \in Consts : Fine(Comp("=", a, c)) /\ Fine(Comp("!=", a, c))
    <3>1. "=" \in Comparisons /\ "!=" \in Comparisons
      BY DEF Comparisons
    <3>2. \A c : Comp("=", a, c).op = "=" /\ Comp("!=", a, c).op = "!="
      BY DEF Comp
    <3>3. \A c \in Consts : Comp("=", a, c) \in E /\ Comp("!=", a, c) \in E
      BY <2>1, <3>1, Parts
    <3> QED
      BY <3>1, <3>2, <3>3
  <2>3. Fine(Sym(a)) /\ Fine(Sym("y")) /\ Fine(Sym("n"))
    <3>1. \A s : Sym(s).op = "sym"
      BY DEF Sym
    <3> QED
      BY <2>1, <3>1, Parts
  <2> HIDE DEF Fine
  <2>4. e1.t \in Consts /\ e2.t \in Consts /\ e1.t # e2.t => Third(e1, e2) \in Consts
    BY ThirdIsThird
  <2> HIDE DEF a
  <2>5. JoinOr(e1, e2) = Null \/ Fine(JoinOr(e1, e2))
    <3>1. JoinOr(e1, e2) \in {Null, Sym("y")} \/ (Third(e1, e2) \in Consts /\ JoinOr(e1, e2) = Comp("!=", a, Third(e1, e2)))
      BY <2>4 DEF JoinOr, IsConst, a
    <3> QED
      BY <2>2, <2>3, <3>1
  <2>6. JoinAnd(e1, e2) = Null \/ Fine(JoinAnd(e1, e2))
    <3>1. \/ JoinAnd(e1, e2) \in {Null, Comp("=", a, "y"), Sym(a), Sym("n")}
          \/ \E c \in Consts : JoinAnd(e1, e2) = Comp("=", a, c)
      BY <2>1, <2>4 DEF JoinAnd, IsConst, a
    <3> QED
      BY <2>1, <2>2, <2>3, <3>1
  <2>7. join = Null \/ Fine(join)
    BY <1>2, <2>5, <2>6 DEF JoinUnequal
  <2> QED
    BY <2>7 DEF Fine
<1> QED
  BY <1>1, <1>2

(* What two operands of a level become are operands of it, no deeper.      *)
LEMMA JoinOf ==
    ASSUME NEW E, NEW height, Whole(E, height), NEW v, NEW val, Calculated(E, v, val),
           NEW nesting, IsNesting(E, nesting), NEW p, IsComparison(E, p),
           NEW op \in Logical, NEW d \in Nat \ {0},
           NEW e \in E, e.op # op, nesting[e] < d, NEW f \in E
    PROVE  LET join == IF p.eq[<<e, f>>] THEN e ELSE JoinUnequal(op, e, f)
           IN  /\ join = Null \/ (join \in E /\ join.op # op /\ nesting[join] < d)
               /\ join = e \/ join = Null \/ join.op \in Comparisons \cup {"sym"}
               /\ \/ join = JoinUnequal(op, e, f)
                  \/ join = e /\ val[e] = val[f] /\ join # Null
<1> DEFINE join == IF p.eq[<<e, f>>] THEN e ELSE JoinUnequal(op, e, f)
<1>1. CASE ~p.eq[<<e, f>>] \/ e = Null
  <2>1. join = JoinUnequal(op, e, f)
    <3>1. ~SameSymbol(Null, f)
      BY DEF SameSymbol, Joinable, Null
    <3> QED
      BY <1>1, <3>1 DEF JoinUnequal
  <2> HIDE DEF join
  <2>2. join = Null \/ (join \in E /\ join.op \in Comparisons \cup {"sym"})
    BY <2>1, JoinTypes
  <2>3. join \in E /\ join.op \in Comparisons \cup {"sym"} => nesting[join] = 0 /\ join.op # op
    BY OpsDiffer DEF IsNesting
  <2>4. /\ join = Null \/ (join \in E /\ join.op # op /\ nesting[join] < d)
        /\ join = e \/ join = Null \/ join.op \in Comparisons \cup {"sym"}
    BY <2>2, <2>3
  <2> QED
    BY <2>1, <2>4 DEF join
<1>2. CASE p.eq[<<e, f>>] /\ e # Null
  <2>1. join = e
    BY <1>2
  <2>2. val[e] = val[f]
    BY <1>2, ExprEqMeansEqual
  <2> QED
    BY <1>2, <2>1, <2>2
<1> QED
  BY <1>1, <1>2

LEMMA BothOf ==
    ASSUME NEW E, NEW height, Whole(E, height), NEW nesting, IsNesting(E, nesting),
           NEW op \in Logical, NEW d \in Nat \ {0},
           NEW inner, inner.e \in E, inner.e.op # op, nesting[inner.e] < d,
           NEW f \in E, f.op # op, nesting[f] < d,
           NEW join, join = Null \/ (join \in E /\ join.op # op /\ nesting[join] < d)
    PROVE  \A x \in {Joined(op, inner, f, join).e1, Joined(op, inner, f, join).e2} :
             x \in E /\ x.op # op /\ nesting[x] < d
<1>1. Neutral(op) \in E /\ Neutral(op).op = "sym" /\ nesting[Neutral(op)] = 0
  <2>1. Neutral(op) \in E /\ Neutral(op).op = "sym"
    BY Parts DEF Neutral, Sym
  <2> QED
    BY <2>1, OpsDiffer DEF IsNesting
<1>2. "sym" # op
  BY OpsDiffer
<1> QED
  BY <1>1, <1>2 DEF Joined

(* Joining the operands of every level (expr.c:588-645).                   *)
LEMMA DupsOf ==
    ASSUME NEW E, NEW height, Whole(E, height), NEW v, NEW val, Calculated(E, v, val),
           NEW nesting, IsNesting(E, nesting), NEW p, IsComparison(E, p), IsDups(E, p), NEW e \in E
    PROVE  LET new == p.dups[e].e
           IN  new \in E /\ val[new] = val[e] /\ new.op = e.op /\ nesting[new] <= nesting[e]
<1> DEFINE Good(x) == LET new == p.dups[x].e
                      IN  new \in E /\ val[new] = val[x] /\ new.op = x.op /\ nesting[new] <= nesting[x]
           S == {x \in E : Good(x)}
<1>1. ASSUME NEW x \in E, \A g \in E : nesting[g] < nesting[x] => g \in S
      PROVE  Good(x)
  <2>1. CASE x.op \notin Logical
    <3>1. p.dups[x].e = x
      <4>1. p.dups[x] = [e |-> x, count |-> 0]
        BY <2>1 DEF IsDups
      <4> QED
        BY <4>1
    <3>2. nesting[x] \in Nat
      BY NestingType
    <3> QED
      BY <3>1, <3>2
  <2>2. CASE x.op \in Logical
    <3> DEFINE op == x.op
               first == p.leaves[op][x]
               n == Len(first) * Len(first)
               d == nesting[x]
    <3>1. /\ first \in Seq(E) /\ Len(first) \in Nat \ {0} /\ DOMAIN first = 1..Len(first)
          /\ IsLevel(op, val, first, val[x]) /\ val[x] \in 0..2
          /\ \A i \in DOMAIN first : first[i].op # op /\ nesting[first[i]] < d
      <4>1. op \in Logical /\ Inside(nesting, op, x) = d
        BY <2>2 DEF Inside
      <4>2. IsLeaves(E, p)
        BY DEF IsComparison
      <4> HIDE DEF op, d
      <4> QED
        BY <4>1, <4>2, LeavesOf, Values
    <3>2. PICK r \in [0..n -> [ls : Seq(E), count : Nat]] :
            /\ r[0] = [ls |-> first, count |-> 0]
            /\ \A k \in 0..(n - 1) :
                 r[k + 1] = JoinRound(LAMBDA y : p.dups[y], LAMBDA y, z : p.eq[<<y, z>>], op, r[k], k)
            /\ p.dups[x] = [e |-> p.with[op][<<x, r[n].ls>>], count |-> r[n].count]
      BY <2>2 DEF IsDups
    <3>3. op \in Logical /\ d \in Nat \ {0} /\ n \in Nat
      <4>1. first[1] \in E /\ 1 \in DOMAIN first
        BY <3>1
      <4>2. nesting[first[1]] \in Nat /\ d \in Nat /\ nesting[first[1]] < d
        BY <3>1, <4>1, NestingType
      <4>3. d \in Nat \ {0}
        BY <4>2
      <4> HIDE DEF d
      <4> QED
        BY <2>2, <3>1, <4>3
    <3> HIDE DEF op, first, d
    <3> DEFINE Kept(ls) == /\ ls \in Seq(E) /\ Len(ls) = Len(first) /\ DOMAIN ls = 1..Len(first)
                           /\ IsLevel(op, val, ls, val[x])
                           /\ \A i \in 1..Len(first) : ls[i].op # op /\ nesting[ls[i]] < d
               T == {k \in 0..n : Kept(r[k].ls)}
    <3>4. 0 \in T
      <4>1. r[0] = [ls |-> first, count |-> 0]
        BY <3>2
      <4>2. r[0].ls = first
        BY <4>1
      <4> QED
        BY <3>1, <3>3, <4>2
    <3>5. ASSUME NEW k \in 0..(n - 1), Kept(r[k].ls) PROVE Kept(r[k + 1].ls)
      <4> DEFINE ls == r[k].ls
                 i == Row(k, ls)
                 j == Column(k, ls)
                 inner == p.dups[ls[i]]
                 join == IF p.eq[<<inner.e, ls[j]>>] THEN inner.e ELSE JoinUnequal(op, inner.e, ls[j])
                 both == Joined(op, inner, ls[j], join)
      <4>1. r[k + 1] = r[k] \/ (i # j /\ r[k + 1].ls = WithBoth(ls, i, j, both))
        <5>1. r[k + 1] = JoinRound(LAMBDA y : p.dups[y], LAMBDA y, z : p.eq[<<y, z>>], op, r[k], k)
          BY <3>2
        <5>2. r[k + 1] = r[k] \/ (i # j /\ r[k + 1] = [ls |-> WithBoth(ls, i, j, both), count |-> r[k].count + both.count])
          BY <5>1 DEF JoinRound
        <5> HIDE DEF both, i, j, ls
        <5> QED
          BY <5>2
      <4>2. CASE r[k + 1] = r[k]
        BY <3>5, <4>2
      <4>3. CASE i # j /\ r[k + 1].ls = WithBoth(ls, i, j, both)
        <5>1. Kept(ls)
          BY <3>5
        <5>2. i \in 1..Len(first) /\ j \in 1..Len(first)
          <6>1. k \in 0..(Len(first) * Len(first) - 1) /\ Len(ls) = Len(first)
            BY <5>1
          <6> HIDE DEF ls
          <6> QED
            BY <3>1, <6>1, Pairs
        <5> HIDE DEF ls, i, j
        <5>3. ls[i] \in E /\ ls[j] \in E /\ ls[i].op # op /\ nesting[ls[i]] < d
          BY <5>1, <5>2
        <5>4. inner.e \in E /\ val[inner.e] = val[ls[i]] /\ inner.e.op # op /\ nesting[inner.e] < d
          <6>1. Good(ls[i])
            BY <1>1, <5>3 DEF d
          <6>2. nesting[inner.e] \in Nat /\ nesting[ls[i]] \in Nat /\ d \in Nat
            BY <3>3, <5>3, <6>1, NestingType
          <6> QED
            BY <5>3, <6>1, <6>2
        <5> HIDE DEF inner, Kept, both
        <5>5. /\ join = Null \/ (join \in E /\ join.op # op /\ nesting[join] < d)
              /\ \/ join = JoinUnequal(op, inner.e, ls[j])
                 \/ join = inner.e /\ val[inner.e] = val[ls[j]] /\ join # Null
          BY <3>3, <5>3, <5>4, JoinOf DEF join
        <5> HIDE DEF join
        <5> DEFINE new == WithBoth(ls, i, j, both)
        <5>6. Neutral(op) \in E
          BY Parts
        <5>7. \A f \in {both.e1, both.e2} : f \in E /\ f.op # op /\ nesting[f] < d
          <6>1. ls[j].op # op /\ nesting[ls[j]] < d
            BY <5>1, <5>2 DEF Kept
          <6> QED
            BY <3>3, <5>3, <5>4, <5>5, <6>1, BothOf DEF both
        <5>8. /\ ls \in Seq(E) /\ Len(ls) = Len(first) /\ DOMAIN ls = 1..Len(first)
              /\ IsLevel(op, val, ls, val[x])
              /\ \A h \in 1..Len(first) : ls[h].op # op /\ nesting[ls[h]] < d
          BY <5>1 DEF Kept
        <5>9. /\ new \in Seq(E) /\ Len(new) = Len(first) /\ DOMAIN new = 1..Len(first)
              /\ \A h \in 1..Len(first) : new[h].op # op /\ nesting[new[h]] < d
          BY <5>2, <5>7, <5>8 DEF WithBoth
        <5>10. IsLevel(op, val, new, val[x])
          <6>1. i \in DOMAIN ls /\ j \in DOMAIN ls /\ i # j /\ join \in E \cup {Null}
            BY <4>3, <5>2, <5>5, <5>8
          <6> QED
            BY <3>3, <5>4, <5>5, <5>6, <5>8, <6>1, JoiningKeeps DEF both
        <5>11. Kept(new)
          <6> HIDE DEF new
          <6> QED
            BY <5>9, <5>10 DEF Kept
        <5> QED
          BY <4>3, <5>11
      <4> QED
        BY <4>1, <4>2, <4>3
    <3>6. Kept(r[n].ls)
      <4>1. 0 \in T /\ \A k \in 0..(n - 1) : k \in T => k + 1 \in T
        <5>1. \A k \in 0..(n - 1) : k \in 0..n /\ k + 1 \in 0..n
          BY <3>3
        <5> HIDE DEF Kept
        <5> QED
          BY <3>4, <3>5, <5>1
      <4> HIDE DEF T, n
      <4>2. 0..n \subseteq T
        BY <3>3, <4>1, Rounds
      <4>3. n \in T
        BY <3>3, <4>2
      <4> QED
        BY <4>3 DEF T
    <3> DEFINE last == r[n].ls
               new == p.with[op][<<x, last>>]
    <3>7. p.dups[x].e = new
      <4>1. p.dups[x] = [e |-> p.with[op][<<x, r[n].ls>>], count |-> r[n].count]
        BY <3>2
      <4> QED
        BY <4>1
    <3>8. Kept(last)
      BY <3>6
    <3> HIDE DEF last, n
    <3>9. /\ new \in E /\ IsLevel(op, val, last, val[new]) /\ new.op = op
          /\ (\A h \in DOMAIN last : Inside(nesting, op, last[h]) <= d) => Inside(nesting, op, new) <= d
      <4>1. IsLeaves(E, p) /\ IsWithLeaves(E, p)
        BY DEF IsComparison
      <4>2. last \in Seq(E) /\ Len(last) = Len(p.leaves[op][x]) /\ x.op = op
        BY <3>8 DEF first, op
      <4> QED
        BY <3>3, <4>1, <4>2, WithLeavesOf
    <3>10. \A h \in DOMAIN last : Inside(nesting, op, last[h]) <= d
      <4>1. \A h \in DOMAIN last : last[h] \in E /\ last[h].op # op /\ nesting[last[h]] < d
        BY <3>8
      <4>2. \A h \in DOMAIN last : nesting[last[h]] \in Nat
        BY <4>1, NestingType
      <4> QED
        BY <3>3, <4>1, <4>2 DEF Inside
    <3>11. val[new] = val[x]
      <4>1. last \in Seq(E) /\ DOMAIN last # {} /\ IsLevel(op, val, last, val[x])
        BY <3>1, <3>8
      <4>2. IsLevel(op, val, last, val[new])
        BY <3>9
      <4> HIDE DEF new
      <4> QED
        BY <3>3, <4>1, <4>2, LevelHasValue
    <3>12. nesting[new] <= d
      BY <3>9, <3>10 DEF Inside
    <3> QED
      BY <3>7, <3>9, <3>11, <3>12 DEF op, d
  <2> QED
    BY <2>1, <2>2
<1>2. nesting \in [E -> Nat]
  BY DEF IsNesting
<1> HIDE DEF Good
<1>3. Inherited(E, nesting, S)
  BY <1>1 DEF Inherited
<1> HIDE DEF S
<1>4. E \subseteq S
  BY <1>2, <1>3, Induction
<1> QED
  BY <1>4 DEF S, Good

(* expr_eliminate_dups (expr.c:656-678): however many passes it takes, the  *)
(* expression it ends with has the value of the one it began with.         *)
THEOREM EliminateDupsKeeps ==
    ASSUME NEW E, NEW height, Whole(E, height), NEW v, NEW val, Calculated(E, v, val),
           NEW nesting, IsNesting(E, nesting), NEW p, IsComparison(E, p), IsDups(E, p),
           NEW n \in Nat, NEW pass \in [0..n -> E],
           \A k \in 0..(n - 1) : pass[k + 1] = p.yn[p.dups[pass[k]].e]
    PROVE  val[p.dups[pass[n]].e] = val[pass[0]]
<1> DEFINE S == {k \in 0..n : val[pass[k]] = val[pass[0]]}
<1>1. 0 \in S
  OBVIOUS
<1>2. ASSUME NEW k \in 0..(n - 1), k \in S PROVE k + 1 \in S
  <2> DEFINE new == p.dups[pass[k]].e
  <2>1. pass[k] \in E /\ k + 1 \in 0..n /\ pass[k + 1] = p.yn[new]
    BY <1>2
  <2>2. new \in E /\ val[new] = val[pass[k]]
    BY <2>1, DupsOf
  <2>3. IsYn(E, p.yn)
    BY DEF IsComparison
  <2> HIDE DEF new
  <2>4. val[p.yn[new]] = val[new]
    BY <2>2, <2>3, EliminateYnKeeps
  <2> QED
    BY <1>2, <2>1, <2>2, <2>4
<1>3. n \in S
  <2> HIDE DEF S
  <2>1. 0..n \subseteq S
    BY <1>1, <1>2, Rounds
  <2> QED
    BY <2>1
<1>4. pass[n] \in E
  OBVIOUS
<1>5. val[p.dups[pass[n]].e] = val[pass[n]]
  BY <1>4, DupsOf
<1> QED
  BY <1>3, <1>5

-----------------------------------------------------------------------------
(* expr_eliminate_dups ends.                                               *)

(* The number of nodes of an expression.                                   *)
IsSize(E, size) ==
    /\ size \in [E -> Nat]
    /\ \A e \in E : size[e] = CASE e.op = "not" -> size[e.l] + 1
                                [] e.op \in Logical -> size[e.l] + size[e.r] + 1
                                [] OTHER -> 1

LEMMA Sizes ==
    ASSUME NEW E, NEW height, Whole(E, height), NEW size, IsSize(E, size), NEW e \in E
    PROVE  /\ size[e] \in Nat \ {0}
           /\ e.op \in Logical => size[e] = size[e.l] + size[e.r] + 1 /\ size[e.l] \in Nat \ {0} /\ size[e.r] \in Nat \ {0}
           /\ e.op \in Comparisons \cup {"sym"} => size[e] = 1
<1>1. ASSUME NEW f \in E PROVE size[f] \in Nat \ {0}
  <2>1. size \in [E -> Nat]
    BY DEF IsSize
  <2>2. CASE f.op = "not"
    <3>1. f.l \in E /\ size[f] = size[f.l] + 1
      BY <2>2, KindsOf, OpsDiffer DEF IsSize
    <3> QED
      BY <2>1, <3>1
  <2>3. CASE f.op \in Logical
    <3>1. f.l \in E /\ f.r \in E /\ size[f] = size[f.l] + size[f.r] + 1
      BY <2>3, KindsOf, OpsDiffer DEF IsSize
    <3> QED
      BY <2>1, <3>1
  <2>4. CASE f.op \notin Logical \cup {"not"}
    <3>1. size[f] = 1
      BY <2>4 DEF IsSize
    <3> QED
      BY <3>1
  <2> QED
    BY <2>2, <2>3, <2>4
<1>2. CASE e.op \in Logical
  <2>1. e.l \in E /\ e.r \in E /\ size[e] = size[e.l] + size[e.r] + 1
    BY <1>2, KindsOf, OpsDiffer DEF IsSize
  <2> QED
    BY <1>1, <1>2, <2>1, OpsDiffer
<1>3. CASE e.op \notin Logical
  <2>1. e.op \in Comparisons \cup {"sym"} => size[e] = 1
    BY <1>3, OpsDiffer DEF IsSize
  <2> QED
    BY <1>1, <1>3, <2>1
<1> QED
  BY <1>2, <1>3

(* Dropping y and n makes an expression smaller when there is one to drop, *)
(* and never larger.                                                       *)
LEMMA YnShrinks ==
    ASSUME NEW E, NEW height, Whole(E, height), NEW size, IsSize(E, size), NEW yn, IsYn(E, yn), NEW e \in E
    PROVE  /\ size[yn[e]] <= size[e]
           /\ e.op \in Logical /\ (\E f \in {e.l, e.r} : f = Neutral(e.op) \/ size[yn[f]] < size[f]) => size[yn[e]] < size[e]
<1> DEFINE Good(f) == /\ size[yn[f]] <= size[f]
                      /\ f.op \in Logical /\ (\E g \in {f.l, f.r} : g = Neutral(f.op) \/ size[yn[g]] < size[g])
                           => size[yn[f]] < size[f]
           S == {f \in E : Good(f)}
<1>1. ASSUME NEW f \in E, \A g \in E : height[g] < height[f] => g \in S
      PROVE  Good(f)
  <2>1. CASE f.op \in Logical
    <3> DEFINE op == f.op
               l == yn[f.l]
               r == yn[f.r]
    <3>1. /\ f.l \in E /\ f.r \in E /\ size[l] <= size[f.l] /\ size[r] <= size[f.r]
      BY <1>1, <2>1, KindsOf
    <3>2. yn[f] = Yn(op, l, r) /\ l \in E /\ r \in E /\ yn[f] \in E
      BY <2>1, <3>1 DEF IsYn, YnStep
    <3>3. size[f] = size[f.l] + size[f.r] + 1 /\ size[f.l] \in Nat \ {0} /\ size[f.r] \in Nat \ {0}
      BY <2>1, Sizes
    <3>4. size[l] \in Nat \ {0} /\ size[r] \in Nat \ {0}
      BY <3>2, Sizes
    <3>5. /\ Neutral(Dual(op)) \in E /\ size[Neutral(Dual(op))] = 1
          /\ Two(op, l, r) \in E /\ size[Two(op, l, r)] = size[l] + size[r] + 1
      <4>1. Neutral(Dual(op)) \in E /\ Neutral(Dual(op)).op = "sym"
        BY Parts DEF Neutral, Sym
      <4>2. Two(op, l, r) \in E /\ Two(op, l, r).op = op /\ Two(op, l, r).l = l /\ Two(op, l, r).r = r
        BY <2>1, <3>2, Parts DEF Two
      <4> QED
        BY <2>1, <4>1, <4>2, Sizes
    <3>6. \/ yn[f] \in {Neutral(Dual(op)), l, r}
          \/ l # Neutral(op) /\ r # Neutral(op) /\ yn[f] = Two(op, l, r)
      BY <3>2 DEF Yn
    <3>7. size[yn[f]] <= size[f]
      BY <3>1, <3>3, <3>4, <3>5, <3>6
    <3>8. ASSUME NEW g \in {f.l, f.r}, g = Neutral(op) PROVE size[yn[f]] < size[f]
      <4>1. yn[g] = g
        <5>1. g \in E /\ g.op = "sym"
          BY <3>1, <3>8 DEF Neutral, Sym
        <5> QED
          BY <5>1, OpsDiffer DEF IsYn, YnStep
      <4>2. l = Neutral(op) \/ r = Neutral(op)
        BY <3>8, <4>1
      <4>3. yn[f] \in {Neutral(Dual(op)), l, r}
        BY <3>6, <4>2
      <4> HIDE DEF l, r
      <4> QED
        BY <3>1, <3>3, <3>4, <3>5, <4>3
    <3>9. ASSUME NEW g \in {f.l, f.r}, size[yn[g]] < size[g] PROVE size[yn[f]] < size[f]
      BY <3>1, <3>3, <3>4, <3>5, <3>6, <3>9
    <3> QED
      BY <3>7, <3>8, <3>9
  <2>2. CASE f.op \notin Logical
    <3>1. yn[f] = f
      BY <2>2 DEF IsYn, YnStep
    <3>2. size[f] \in Nat
      BY Sizes
    <3> QED
      BY <2>2, <3>1, <3>2
  <2> QED
    BY <2>1, <2>2
<1>2. height \in [E -> Nat]
  BY DEF Whole
<1> HIDE DEF Good
<1>3. Inherited(E, height, S)
  BY <1>1 DEF Inherited
<1> HIDE DEF S
<1>4. E \subseteq S
  BY <1>2, <1>3, Induction
<1> QED
  BY <1>4 DEF S, Good

(* A tree with other leaves is one.                                        *)
LEMMA TreeType ==
    ASSUME NEW E, NEW p, IsWithLeaves(E, p), NEW op \in Logical, NEW e \in E, NEW ls \in Seq(E)
    PROVE  p.with[op][<<e, ls>>] \in E
BY DEF IsWithLeaves

(* Sequences with another element, and parts of them.                      *)
IsReplaced(E, t, s, j, x) ==
    t \in Seq(E) /\ Len(t) = Len(s) /\ \A i \in 1..Len(s) : t[i] = IF i = j THEN x ELSE s[i]
IsPart(E, q, s, k, m) == q \in Seq(E) /\ Len(q) = m /\ \A i \in 1..m : q[i] = s[k + i]
InOnePart(E, s, sl, sr, tl, tr, j, k, x) ==
    /\ j <= k => IsReplaced(E, tl, sl, j, x) /\ tr = sr /\ sl[j] = s[j]
    /\ j > k => IsReplaced(E, tr, sr, j - k, x) /\ tl = sl /\ sr[j - k] = s[j]

LEMMA Replaced ==
    ASSUME NEW E, NEW s \in Seq(E), NEW j \in 1..Len(s), NEW x \in E
    PROVE  IsReplaced(E, [s EXCEPT ![j] = x], s, j, x)
BY DEF IsReplaced

LEMMA PartOf ==
    ASSUME NEW E, NEW s \in Seq(E), NEW k \in Nat, NEW m \in Nat, k + m <= Len(s)
    PROVE  IsPart(E, SubSeq(s, k + 1, k + m), s, k, m)
BY DEF IsPart

LEMMA FirstPartOf ==
    ASSUME NEW E, NEW s \in Seq(E), NEW k \in Nat, k <= Len(s)
    PROVE  IsPart(E, SubSeq(s, 1, k), s, 0, k)
BY DEF IsPart

LEMMA ExceptParts ==
    ASSUME NEW E, NEW k \in Nat, NEW m \in Nat, NEW j \in 1..(k + m), NEW x \in E,
           NEW s \in Seq(E), Len(s) = k + m, NEW t, IsReplaced(E, t, s, j, x),
           NEW sl, IsPart(E, sl, s, 0, k), NEW sr, IsPart(E, sr, s, k, m),
           NEW tl, IsPart(E, tl, t, 0, k), NEW tr, IsPart(E, tr, t, k, m)
    PROVE  InOnePart(E, s, sl, sr, tl, tr, j, k, x)
<1>1. /\ t \in Seq(E) /\ (\A i \in 1..(k + m) : t[i] = IF i = j THEN x ELSE s[i])
      /\ sr \in Seq(E) /\ Len(sr) = m /\ (\A i \in 1..m : sr[i] = s[k + i])
      /\ tr \in Seq(E) /\ Len(tr) = m /\ (\A i \in 1..m : tr[i] = t[k + i])
  BY DEF IsReplaced, IsPart
<1>2. /\ sl \in Seq(E) /\ Len(sl) = k /\ (\A i \in 1..k : sl[i] = s[i])
      /\ tl \in Seq(E) /\ Len(tl) = k /\ (\A i \in 1..k : tl[i] = t[i])
  <2>1. \A i \in 1..k : 0 + i = i
    OBVIOUS
  <2> QED
    BY <2>1 DEF IsPart
<1>3. ASSUME j <= k PROVE IsReplaced(E, tl, sl, j, x) /\ tr = sr /\ sl[j] = s[j]
  <2>1. j \in 1..k /\ \A i \in 1..k : i \in 1..(k + m)
    BY <1>3
  <2>2. IsReplaced(E, tl, sl, j, x)
    BY <1>1, <1>2, <2>1 DEF IsReplaced
  <2>3. \A i \in 1..m : k + i \in 1..(k + m) /\ k + i # j
    BY <2>1
  <2>4. \A i \in 1..m : tr[i] = sr[i]
    BY <1>1, <2>3
  <2>5. tr = sr
    BY <1>1, <2>4, SeqEqual
  <2> QED
    BY <1>2, <2>1, <2>2, <2>5
<1>4. ASSUME j > k PROVE IsReplaced(E, tr, sr, j - k, x) /\ tl = sl /\ sr[j - k] = s[j]
  <2>1. j - k \in 1..m /\ k + (j - k) = j
    BY <1>4
  <2>2. \A i \in 1..m : k + i \in 1..(k + m) /\ (k + i = j <=> i = j - k)
    OBVIOUS
  <2>3. IsReplaced(E, tr, sr, j - k, x)
    BY <1>1, <2>2 DEF IsReplaced
  <2>4. \A i \in 1..k : i \in 1..(k + m) /\ i # j
    BY <1>4
  <2>5. \A i \in 1..k : tl[i] = sl[i]
    BY <1>1, <1>2, <2>4
  <2>6. tl = sl
    BY <1>2, <2>5, SeqEqual
  <2>7. sr[j - k] = s[k + (j - k)]
    BY <1>1, <2>1
  <2> QED
    BY <2>1, <2>3, <2>6, <2>7
<1> QED
  BY <1>3, <1>4 DEF InOnePart

(* The size of a tree with one other leaf, and with its own leaves.         *)
LEMMA WithLeafSize ==
    ASSUME NEW E, NEW height, Whole(E, height), NEW size, IsSize(E, size), NEW p, IsLeaves(E, p), IsWithLeaves(E, p),
           NEW op \in Logical, NEW e \in E, NEW ls \in Seq(E), Len(ls) = Len(p.leaves[op][e]),
           NEW i \in 1..Len(ls), NEW x \in E,
           NEW new, IsReplaced(E, new, ls, i, x)
    PROVE  size[p.with[op][<<e, new>>]] = size[p.with[op][<<e, ls>>]] - size[ls[i]] + size[x]
<1> DEFINE Tree(f, s) == p.with[op][<<f, s>>]
           Good(f, s, t, j) == size[Tree(f, t)] = size[Tree(f, s)] - size[s[j]] + size[x]
           Fits(f, s, t, j) == Len(s) = Len(p.leaves[op][f]) /\ j \in 1..Len(s) /\ IsReplaced(E, t, s, j, x)
           S == {f \in E : \A s, t \in Seq(E) : \A j \in Nat : Fits(f, s, t, j) => Good(f, s, t, j)}
<1>1. ASSUME NEW f \in E, \A g \in E : height[g] < height[f] => g \in S, NEW s \in Seq(E), NEW t \in Seq(E), NEW j \in Nat, Fits(f, s, t, j)
      PROVE  Good(f, s, t, j)
  <2>1. Len(t) = Len(s) /\ t[j] = x /\ s[j] \in E
    BY <1>1 DEF IsReplaced
  <2>2. \A q \in Seq(E) : Len(q) = Len(p.leaves[op][f])
           => Tree(f, q) = WithLeavesStep(LAMBDA y : p.leaves[op][y], LAMBDA y, z : p.with[op][<<y, z>>], op, f, q)
    BY DEF IsWithLeaves
  <2>3. CASE f.op = op
    <3>1. f.l \in S /\ f.r \in S /\ f.l \in E /\ f.r \in E
      BY <1>1, <2>3, KindsOf
    <3> DEFINE k == Len(p.leaves[op][f.l])
               m == Len(p.leaves[op][f.r])
               A(q) == SubSeq(q, 1, k)
               B(q) == SubSeq(q, k + 1, k + m)
    <3>2. k \in Nat /\ m \in Nat /\ Len(s) = k + m
      <4>1. p.leaves[op][f] = p.leaves[op][f.l] \o p.leaves[op][f.r]
        BY <2>3 DEF IsLeaves, LeavesStep
      <4>2. p.leaves[op][f.l] \in Seq(E) /\ p.leaves[op][f.r] \in Seq(E)
        BY <3>1 DEF IsLeaves
      <4>3. Len(s) = Len(p.leaves[op][f])
        BY <1>1
      <4> DEFINE a == p.leaves[op][f.l]
                 b == p.leaves[op][f.r]
      <4> HIDE DEF a, b
      <4>4. a \in Seq(E) /\ b \in Seq(E) => Len(a) \in Nat /\ Len(b) \in Nat /\ Len(a \o b) = Len(a) + Len(b)
        OBVIOUS
      <4> QED
        BY <4>1, <4>2, <4>3, <4>4 DEF a, b
    <3>3. \A q \in {s, t} : Tree(f, q) = Two(op, Tree(f.l, A(q)), Tree(f.r, B(q)))
      <4>1. Len(s) = Len(p.leaves[op][f]) /\ Len(t) = Len(p.leaves[op][f]) /\ t \in Seq(E)
        BY <1>1, <2>1
      <4>2. ASSUME NEW q \in Seq(E), Len(q) = Len(p.leaves[op][f])
            PROVE  Tree(f, q) = Two(op, Tree(f.l, A(q)), Tree(f.r, B(q)))
        <5>1. Tree(f, q) = Two(op, Tree(f.l, A(q)), Tree(f.r, SubSeq(q, k + 1, Len(q))))
          BY <2>2, <2>3, <4>2 DEF WithLeavesStep
        <5>2. Len(q) = k + m
          BY <1>1, <3>2, <4>2
        <5> QED
          BY <5>1, <5>2
      <4> QED
        BY <4>1, <4>2
    <3> HIDE DEF k, m
    <3> DEFINE sl == A(s)
               sr == B(s)
               tl == A(t)
               tr == B(t)
    <3>4. /\ sl \in Seq(E) /\ Len(sl) = k /\ tl \in Seq(E) /\ Len(tl) = k
          /\ sr \in Seq(E) /\ Len(sr) = m /\ tr \in Seq(E) /\ Len(tr) = m
          /\ j <= k => IsReplaced(E, tl, sl, j, x) /\ tr = sr /\ sl[j] = s[j]
          /\ j > k => IsReplaced(E, tr, sr, j - k, x) /\ tl = sl /\ sr[j - k] = s[j]
      <4>1. j \in 1..(k + m) /\ IsReplaced(E, t, s, j, x)
        BY <1>1, <3>2
      <4>2. Len(t) = k + m
        BY <2>1, <3>2
      <4>3. /\ IsPart(E, sl, s, 0, k) /\ IsPart(E, sr, s, k, m)
            /\ IsPart(E, tl, t, 0, k) /\ IsPart(E, tr, t, k, m)
        BY <3>2, <4>2, FirstPartOf, PartOf
      <4> HIDE DEF sl, sr, tl, tr
      <4>4. InOnePart(E, s, sl, sr, tl, tr, j, k, x)
        BY <3>2, <4>1, <4>2, <4>3, ExceptParts
      <4>5. /\ sl \in Seq(E) /\ Len(sl) = k /\ tl \in Seq(E) /\ Len(tl) = k
            /\ sr \in Seq(E) /\ Len(sr) = m /\ tr \in Seq(E) /\ Len(tr) = m
        BY <4>3 DEF IsPart
      <4> QED
        BY <4>4, <4>5 DEF InOnePart
    <3>5. \A q \in {s, t} : /\ Tree(f.l, A(q)) \in E /\ Tree(f.r, B(q)) \in E
                            /\ size[Tree(f, q)] = size[Tree(f.l, A(q))] + size[Tree(f.r, B(q))] + 1
                            /\ size[Tree(f.l, A(q))] \in Nat /\ size[Tree(f.r, B(q))] \in Nat
      <4> SUFFICES ASSUME NEW q \in {s, t}
                   PROVE  /\ Tree(f.l, A(q)) \in E /\ Tree(f.r, B(q)) \in E
                          /\ size[Tree(f, q)] = size[Tree(f.l, A(q))] + size[Tree(f.r, B(q))] + 1
                          /\ size[Tree(f.l, A(q))] \in Nat /\ size[Tree(f.r, B(q))] \in Nat
        OBVIOUS
      <4>1. Tree(f.l, A(q)) \in E /\ Tree(f.r, B(q)) \in E
        <5>1. A(q) \in Seq(E) /\ B(q) \in Seq(E)
          <6>1. CASE q = s
            BY <3>4, <6>1
          <6>2. CASE q = t
            BY <3>4, <6>2
          <6> QED
            BY <6>1, <6>2
        <5> HIDE DEF A, B
        <5> QED
          BY <3>1, <5>1, TreeType
      <4> DEFINE l == Tree(f.l, A(q))
                 r == Tree(f.r, B(q))
                 w == Tree(f, q)
      <4>2. w = Two(op, l, r)
        BY <3>3
      <4>3. l \in E /\ r \in E
        BY <4>1
      <4> HIDE DEF l, r, w
      <4>4. w \in E /\ w.op = op /\ w.l = l /\ w.r = r
        BY <4>2, <4>3, Parts DEF Two
      <4>5. size[w] = size[l] + size[r] + 1 /\ size[l] \in Nat /\ size[r] \in Nat
        BY <4>4, Sizes
      <4> QED
        BY <4>3, <4>5 DEF l, r, w
    <3>6. size[x] \in Nat /\ size[s[j]] \in Nat
      BY <2>1, Sizes
    <3> HIDE DEF Tree
    <3>7. CASE j <= k
      <4>1. IsReplaced(E, tl, sl, j, x) /\ tr = sr /\ sl[j] = s[j]
        BY <3>4, <3>7
      <4>2. Good(f.l, sl, tl, j)
        <5> HIDE DEF sl, sr, tl, tr
        <5>1. Fits(f.l, sl, tl, j)
          BY <1>1, <3>4, <3>7, <4>1 DEF k
        <5> HIDE DEF Fits, Good
        <5> QED
          BY <3>1, <3>4, <5>1
      <4>3. size[Tree(f.l, tl)] = size[Tree(f.l, sl)] - size[s[j]] + size[x]
        <5> HIDE DEF sl, sr, tl, tr
        <5> QED
          BY <4>1, <4>2
      <4>4. /\ size[Tree(f, s)] = size[Tree(f.l, sl)] + size[Tree(f.r, sr)] + 1
            /\ size[Tree(f, t)] = size[Tree(f.l, tl)] + size[Tree(f.r, tr)] + 1
            /\ size[Tree(f.l, sl)] \in Nat /\ size[Tree(f.r, sr)] \in Nat
            /\ size[Tree(f.l, tl)] \in Nat /\ size[Tree(f.r, tr)] \in Nat
        BY <3>5
      <4> HIDE DEF sl, sr, tl, tr
      <4> DEFINE whole == size[Tree(f, s)]
                 other == size[Tree(f, t)]
                 old == size[Tree(f.l, sl)]
                 new1 == size[Tree(f.l, tl)]
                 rest == size[Tree(f.r, sr)]
                 taken == size[s[j]]
                 given == size[x]
      <4>5. size[Tree(f.r, tr)] = size[Tree(f.r, sr)]
        BY <4>1
      <4>6. other = new1 + rest + 1
        BY <4>4, <4>5
      <4>7. whole = old + rest + 1 /\ old \in Nat /\ new1 \in Nat /\ rest \in Nat
        BY <4>4
      <4>8. new1 = old - taken + given
        BY <4>3
      <4>9. taken \in Nat /\ given \in Nat
        BY <3>6
      <4> HIDE DEF whole, other, old, new1, rest, taken, given
      <4>10. other = whole - taken + given
        BY <4>6, <4>7, <4>8, <4>9
      <4> QED
        BY <4>10 DEF other, whole, taken, given
    <3>8. CASE j > k
      <4>1. IsReplaced(E, tr, sr, j - k, x) /\ tl = sl /\ sr[j - k] = s[j]
        BY <3>4, <3>8
      <4>2. Good(f.r, sr, tr, j - k)
        <5> HIDE DEF sl, sr, tl, tr
        <5>1. Fits(f.r, sr, tr, j - k) /\ j - k \in Nat
          BY <1>1, <3>2, <3>4, <3>8, <4>1 DEF m
        <5> HIDE DEF Fits, Good
        <5> QED
          BY <3>1, <3>4, <5>1
      <4>3. size[Tree(f.r, tr)] = size[Tree(f.r, sr)] - size[s[j]] + size[x]
        <5> HIDE DEF sl, sr, tl, tr
        <5> QED
          BY <4>1, <4>2
      <4>4. /\ size[Tree(f, s)] = size[Tree(f.l, sl)] + size[Tree(f.r, sr)] + 1
            /\ size[Tree(f, t)] = size[Tree(f.l, tl)] + size[Tree(f.r, tr)] + 1
            /\ size[Tree(f.l, sl)] \in Nat /\ size[Tree(f.r, sr)] \in Nat
            /\ size[Tree(f.l, tl)] \in Nat /\ size[Tree(f.r, tr)] \in Nat
        BY <3>5
      <4> HIDE DEF sl, sr, tl, tr
      <4> DEFINE whole == size[Tree(f, s)]
                 other == size[Tree(f, t)]
                 old == size[Tree(f.r, sr)]
                 new1 == size[Tree(f.r, tr)]
                 rest == size[Tree(f.l, sl)]
                 taken == size[s[j]]
                 given == size[x]
      <4>5. size[Tree(f.l, tl)] = size[Tree(f.l, sl)]
        BY <4>1
      <4>6. other = new1 + rest + 1
        BY <4>4, <4>5
      <4>7. whole = old + rest + 1 /\ old \in Nat /\ new1 \in Nat /\ rest \in Nat
        BY <4>4
      <4>8. new1 = old - taken + given
        BY <4>3
      <4>9. taken \in Nat /\ given \in Nat
        BY <3>6
      <4> HIDE DEF whole, other, old, new1, rest, taken, given
      <4>10. other = whole - taken + given
        BY <4>6, <4>7, <4>8, <4>9
      <4> QED
        BY <4>10 DEF other, whole, taken, given
    <3> QED
      BY <1>1, <3>2, <3>7, <3>8
  <2>4. CASE f.op # op
    <3>1. p.leaves[op][f] = <<f>>
      BY <2>4 DEF IsLeaves, LeavesStep
    <3>2. j = 1
      BY <1>1, <3>1
    <3>3. Tree(f, s) = s[1] /\ Tree(f, t) = t[1]
      <4>1. Len(s) = Len(p.leaves[op][f]) /\ Len(t) = Len(p.leaves[op][f]) /\ t \in Seq(E)
        BY <1>1, <2>1
      <4>2. \A q \in Seq(E) : Len(q) = Len(p.leaves[op][f]) => Tree(f, q) = q[1]
        BY <2>2, <2>4 DEF WithLeavesStep
      <4> QED
        BY <4>1, <4>2
    <3>4. size[x] \in Nat /\ size[s[j]] \in Nat
      BY <2>1, Sizes
    <3> QED
      BY <2>1, <3>2, <3>3, <3>4
  <2> QED
    BY <2>3, <2>4
<1>2. height \in [E -> Nat]
  BY DEF Whole
<1>3. Fits(e, ls, new, i)
  OBVIOUS
<1>4. i \in Nat /\ new \in Seq(E)
  BY DEF IsReplaced
<1> HIDE DEF Good, Fits
<1>5. Inherited(E, height, S)
  BY <1>1 DEF Inherited
<1> HIDE DEF S
<1>6. E \subseteq S
  BY <1>2, <1>5, Induction
<1> QED
  BY <1>3, <1>4, <1>6 DEF S, Good

LEMMA OwnLeaves ==
    ASSUME NEW E, NEW height, Whole(E, height), NEW p, IsLeaves(E, p), IsWithLeaves(E, p), NEW op \in Logical, NEW e \in E
    PROVE  p.with[op][<<e, p.leaves[op][e]>>] = e
<1> DEFINE Own(f) == p.leaves[op][f]
           S == {f \in E : p.with[op][<<f, Own(f)>>] = f}
<1>1. ASSUME NEW f \in E, \A g \in E : height[g] < height[f] => g \in S
      PROVE  f \in S
  <2>1. p.with[op][<<f, Own(f)>>] = WithLeavesStep(LAMBDA y : p.leaves[op][y], LAMBDA y, z : p.with[op][<<y, z>>], op, f, Own(f))
    BY DEF IsWithLeaves, IsLeaves
  <2>2. CASE f.op = op
    <3>1. f = Two(op, f.l, f.r) /\ f.l \in S /\ f.r \in S /\ f.l \in E /\ f.r \in E
      BY <1>1, <2>2, KindsOf
    <3>2. Own(f) = Own(f.l) \o Own(f.r) /\ Own(f.l) \in Seq(E) /\ Own(f.r) \in Seq(E)
      <4>1. Own(f.l) \in Seq(E) /\ Own(f.r) \in Seq(E)
        BY <3>1 DEF IsLeaves
      <4>2. Own(f) = LeavesStep(LAMBDA y : p.leaves[op][y], op, f)
        BY DEF IsLeaves
      <4> QED
        BY <2>2, <4>1, <4>2 DEF LeavesStep
    <3>3. SubSeq(Own(f), 1, Len(Own(f.l))) = Own(f.l) /\ SubSeq(Own(f), Len(Own(f.l)) + 1, Len(Own(f))) = Own(f.r)
      <4> HIDE DEF Own
      <4> QED
        BY <3>2
    <3>4. p.with[op][<<f, Own(f)>>] = Two(op, p.with[op][<<f.l, Own(f.l)>>], p.with[op][<<f.r, Own(f.r)>>])
      <4>1. p.with[op][<<f, Own(f)>>] = Two(op, p.with[op][<<f.l, SubSeq(Own(f), 1, Len(Own(f.l)))>>],
                                             p.with[op][<<f.r, SubSeq(Own(f), Len(Own(f.l)) + 1, Len(Own(f)))>>])
        BY <2>1, <2>2 DEF WithLeavesStep
      <4> QED
        BY <3>3, <4>1
    <3> QED
      BY <3>1, <3>4
  <2>3. CASE f.op # op
    <3>1. Own(f) = <<f>>
      BY <2>3 DEF IsLeaves, LeavesStep
    <3>2. p.with[op][<<f, Own(f)>>] = Own(f)[1]
      BY <2>1, <2>3 DEF WithLeavesStep
    <3> QED
      BY <3>1, <3>2
  <2> QED
    BY <2>2, <2>3
<1>2. height \in [E -> Nat]
  BY DEF Whole
<1> HIDE DEF S
<1>3. E \subseteq S
  BY <1>1, <1>2, Induction DEF Inherited
<1> QED
  BY <1>3 DEF S

(* The leaves sl and sr of the two parts of a tree e whose leaves are ls.   *)
IsSplit(E, p, op, e, ls, sl, sr) ==
    /\ sl \in Seq(E) /\ Len(sl) = Len(p.leaves[op][e.l]) /\ p.with[op][<<e.l, sl>>] \in E
    /\ sr \in Seq(E) /\ Len(sr) = Len(p.leaves[op][e.r]) /\ p.with[op][<<e.r, sr>>] \in E
    /\ Len(ls) = Len(sl) + Len(sr)
    /\ \A i \in 1..Len(sl) : sl[i] = ls[i]
    /\ \A i \in 1..Len(sr) : sr[i] = ls[Len(sl) + i]
    /\ p.with[op][<<e, ls>>] = Two(op, p.with[op][<<e.l, sl>>], p.with[op][<<e.r, sr>>])

LEMMA Subtrees ==
    ASSUME NEW E, NEW height, Whole(E, height), NEW p, IsLeaves(E, p), IsWithLeaves(E, p),
           NEW op \in Logical, NEW e \in E, e.op = op, NEW ls \in Seq(E), Len(ls) = Len(p.leaves[op][e])
    PROVE  /\ e.l \in E /\ e.r \in E /\ height[e.l] < height[e] /\ height[e.r] < height[e]
           /\ \E sl, sr : IsSplit(E, p, op, e, ls, sl, sr)
<1>1. e.l \in E /\ e.r \in E /\ height[e.l] < height[e] /\ height[e.r] < height[e]
  BY KindsOf
<1> DEFINE a == p.leaves[op][e.l]
           b == p.leaves[op][e.r]
           k == Len(a)
           m == Len(b)
           sl == SubSeq(ls, 1, k)
           sr == SubSeq(ls, k + 1, k + m)
<1>2. k \in Nat /\ m \in Nat /\ Len(ls) = k + m
  <2>1. p.leaves[op][e] = a \o b /\ a \in Seq(E) /\ b \in Seq(E)
    BY <1>1 DEF IsLeaves, LeavesStep
  <2> HIDE DEF a, b
  <2> QED
    BY <2>1
<1>3. p.with[op][<<e, ls>>] = Two(op, p.with[op][<<e.l, sl>>], p.with[op][<<e.r, sr>>])
  <2>1. p.with[op][<<e, ls>>] = WithLeavesStep(LAMBDA y : p.leaves[op][y], LAMBDA y, z : p.with[op][<<y, z>>], op, e, ls)
    BY DEF IsWithLeaves
  <2>2. p.with[op][<<e, ls>>] = Two(op, p.with[op][<<e.l, sl>>], p.with[op][<<e.r, SubSeq(ls, k + 1, Len(ls))>>])
    BY <2>1 DEF WithLeavesStep
  <2> QED
    BY <1>2, <2>2
<1> HIDE DEF k, m
<1>4. /\ sl \in Seq(E) /\ Len(sl) = k /\ (\A i \in 1..k : sl[i] = ls[i])
      /\ sr \in Seq(E) /\ Len(sr) = m /\ (\A i \in 1..m : sr[i] = ls[k + i])
  <2>1. IsPart(E, sl, ls, 0, k) /\ IsPart(E, sr, ls, k, m)
    BY <1>2, FirstPartOf, PartOf
  <2>2. \A i \in 1..k : 0 + i = i
    BY <1>2
  <2> QED
    BY <2>1, <2>2 DEF IsPart
<1> HIDE DEF sl, sr
<1>5. p.with[op][<<e.l, sl>>] \in E /\ p.with[op][<<e.r, sr>>] \in E
  BY <1>1, <1>4 DEF IsWithLeaves
<1>6. IsSplit(E, p, op, e, ls, sl, sr)
  BY <1>2, <1>3, <1>4, <1>5 DEF k, m, IsSplit
<1> QED
  BY <1>1, <1>6

(* A tree becomes smaller without y and n when one of its leaves is neutral *)
(* or becomes smaller.                                                     *)
Shrinks(size, yn, x) == size[yn[x]] < size[x]
Marked(size, yn, op, x) == x = Neutral(op) \/ Shrinks(size, yn, x)

LEMMA MarkedLeaf ==
    ASSUME NEW E, NEW height, Whole(E, height), NEW size, IsSize(E, size), NEW p, IsYn(E, p.yn),
           IsLeaves(E, p), IsWithLeaves(E, p), NEW op \in Logical, NEW e \in E,
           NEW ls \in Seq(E), Len(ls) = Len(p.leaves[op][e]), NEW i \in 1..Len(ls), Marked(size, p.yn, op, ls[i])
    PROVE  LET new == p.with[op][<<e, ls>>]
           IN  Marked(size, p.yn, op, new) /\ (e.op = op => Shrinks(size, p.yn, new))
<1> DEFINE Tree(f, s) == p.with[op][<<f, s>>]
           Good(f, s) == Marked(size, p.yn, op, Tree(f, s)) /\ (f.op = op => Shrinks(size, p.yn, Tree(f, s)))
           Fits(f, s) == Len(s) = Len(p.leaves[op][f]) /\ \E j \in 1..Len(s) : Marked(size, p.yn, op, s[j])
           S == {f \in E : \A s \in Seq(E) : Fits(f, s) => Good(f, s)}
<1>1. ASSUME NEW f \in E, \A g \in E : height[g] < height[f] => g \in S, NEW s \in Seq(E), Fits(f, s)
      PROVE  Good(f, s)
  <2>1. PICK j \in 1..Len(s) : Marked(size, p.yn, op, s[j])
    BY <1>1
  <2>2. CASE f.op = op
    <3>1. /\ f.l \in E /\ f.r \in E /\ height[f.l] < height[f] /\ height[f.r] < height[f]
          /\ \E sl, sr : IsSplit(E, p, op, f, s, sl, sr)
      <4>1. f.op = op /\ Len(s) = Len(p.leaves[op][f])
        BY <1>1, <2>2
      <4> HIDE DEF S, Tree, Fits, Good
      <4> QED
        BY <4>1, Subtrees
    <3>2. PICK sl, sr : IsSplit(E, p, op, f, s, sl, sr)
      BY <3>1
    <3> DEFINE k == Len(sl)
               m == Len(sr)
    <3>3. k \in Nat /\ m \in Nat /\ Len(s) = k + m /\ sl \in Seq(E) /\ sr \in Seq(E)
      <4>1. sl \in Seq(E) /\ sr \in Seq(E) /\ Len(s) = Len(sl) + Len(sr)
        BY <3>2 DEF IsSplit
      <4> QED
        BY <4>1
    <3> DEFINE l == Tree(f.l, sl)
               r == Tree(f.r, sr)
    <3>4. Marked(size, p.yn, op, l) \/ Marked(size, p.yn, op, r)
      <4>1. CASE j <= k
        <5>1. j \in 1..k
          BY <4>1
        <5>2. Fits(f.l, sl)
          BY <2>1, <3>2, <5>1 DEF IsSplit
        <5>3. f.l \in S
          BY <1>1, <3>1
        <5> HIDE DEF Fits
        <5> QED
          BY <3>3, <5>2, <5>3
      <4>2. CASE j > k
        <5>1. j - k \in 1..m /\ k + (j - k) = j
          BY <3>3, <4>2
        <5>2. Fits(f.r, sr)
          <6>1. sr[j - k] = s[j]
            BY <3>2, <5>1 DEF IsSplit
          <6> QED
            BY <2>1, <3>2, <5>1, <6>1 DEF IsSplit
        <5>3. f.r \in S
          BY <1>1, <3>1
        <5> HIDE DEF Fits
        <5> QED
          BY <3>3, <5>2, <5>3
      <4> QED
        BY <3>3, <4>1, <4>2
    <3> DEFINE w == Tree(f, s)
    <3>5. w = Two(op, l, r) /\ l \in E /\ r \in E
      BY <3>2 DEF IsSplit
    <3> HIDE DEF l, r, w
    <3>6. w \in E /\ w.op = op /\ w.l = l /\ w.r = r
      BY <3>5, Parts DEF Two
    <3>7. Shrinks(size, p.yn, w)
      <4>1. \E g \in {w.l, w.r} : g = Neutral(w.op) \/ size[p.yn[g]] < size[g]
        BY <3>4, <3>6 DEF Marked, Shrinks
      <4> QED
        BY <3>6, <4>1, YnShrinks DEF Shrinks
    <3> QED
      BY <3>7 DEF Marked, w
  <2>3. CASE f.op # op
    <3>1. p.leaves[op][f] = <<f>>
      BY <2>3 DEF IsLeaves, LeavesStep
    <3>2. j = 1
      BY <1>1, <3>1
    <3>3. Tree(f, s) = s[1]
      BY <1>1, <2>3 DEF IsWithLeaves, WithLeavesStep
    <3> QED
      BY <2>1, <2>3, <3>2, <3>3
  <2> QED
    BY <2>2, <2>3
<1>2. height \in [E -> Nat]
  BY DEF Whole
<1>3. Fits(e, ls)
  OBVIOUS
<1> HIDE DEF Good, Fits
<1>4. Inherited(E, height, S)
  BY <1>1 DEF Inherited
<1> HIDE DEF S
<1>5. E \subseteq S
  BY <1>2, <1>4, Induction
<1> QED
  BY <1>3, <1>5 DEF S, Good

(* Normal expressions stay normal while they are simplified.               *)

LEMMA YnNormal ==
    ASSUME NEW E, NEW height, Whole(E, height), NEW yn, IsYn(E, yn), NEW e \in NormalForms(E)
    PROVE  yn[e] \in NormalForms(E)
<1> DEFINE N == NormalForms(E)
           S == {f \in E : f \in N => yn[f] \in N}
<1>1. ASSUME NEW f \in E, \A g \in E : height[g] < height[f] => g \in S, f \in N
      PROVE  yn[f] \in N
  <2>1. CASE f.op \in Logical
    <3>1. yn[f.l] \in N /\ yn[f.r] \in N
      <4>1. f.l \in E /\ f.r \in E /\ f.l \in S /\ f.r \in S
        BY <1>1, <2>1, KindsOf
      <4>2. f.l \in N /\ f.r \in N
        BY <1>1, <2>1, NormalFormsNormal DEF IsNormal
      <4> QED
        BY <4>1, <4>2
    <3>2. yn[f] = Yn(f.op, yn[f.l], yn[f.r])
      BY <2>1 DEF IsYn, YnStep
    <3>3. \A op : Neutral(op) \in N
      BY MakesNormal DEF Neutral, Consts
    <3>4. Two(f.op, yn[f.l], yn[f.r]) \in N
      BY <2>1, <3>1, MakesNormal
    <3> QED
      BY <3>1, <3>2, <3>3, <3>4 DEF Yn
  <2>2. CASE f.op \notin Logical
    BY <1>1, <2>2 DEF IsYn, YnStep
  <2> QED
    BY <2>1, <2>2
<1>2. height \in [E -> Nat]
  BY DEF Whole
<1> HIDE DEF N
<1>3. Inherited(E, height, S)
  BY <1>1 DEF Inherited
<1> HIDE DEF S
<1>4. E \subseteq S
  BY <1>2, <1>3, Induction
<1>5. e \in E /\ e \in N
  BY NormalFormsNormal DEF N
<1> QED
  BY <1>4, <1>5 DEF S, N

LEMMA LeavesNormal ==
    ASSUME NEW E, NEW height, Whole(E, height), NEW p, IsLeaves(E, p), NEW op \in Logical, NEW e \in NormalForms(E)
    PROVE  p.leaves[op][e] \in Seq(NormalForms(E))
<1> DEFINE N == NormalForms(E)
           S == {f \in E : f \in N => p.leaves[op][f] \in Seq(N)}
<1>1. ASSUME NEW f \in E, \A g \in E : height[g] < height[f] => g \in S, f \in N
      PROVE  p.leaves[op][f] \in Seq(N)
  <2>1. p.leaves[op][f] = LeavesStep(LAMBDA x : p.leaves[op][x], op, f)
    BY DEF IsLeaves
  <2>2. CASE f.op = op
    <3>1. p.leaves[op][f] = p.leaves[op][f.l] \o p.leaves[op][f.r]
      BY <2>1, <2>2 DEF LeavesStep
    <3>2. f.l \in E /\ f.r \in E /\ f.l \in S /\ f.r \in S
      BY <1>1, <2>2, KindsOf
    <3>3. f.l \in N /\ f.r \in N
      BY <1>1, <2>2, NormalFormsNormal DEF IsNormal
    <3>4. p.leaves[op][f.l] \in Seq(N) /\ p.leaves[op][f.r] \in Seq(N)
      BY <3>2, <3>3
    <3> HIDE DEF N
    <3> QED
      BY <3>1, <3>4
  <2>3. CASE f.op # op
    <3>1. p.leaves[op][f] = <<f>>
      BY <2>1, <2>3 DEF LeavesStep
    <3> HIDE DEF N
    <3> QED
      BY <1>1, <3>1
  <2> QED
    BY <2>2, <2>3
<1>2. height \in [E -> Nat]
  BY DEF Whole
<1> HIDE DEF N
<1>3. Inherited(E, height, S)
  BY <1>1 DEF Inherited
<1> HIDE DEF S
<1>4. E \subseteq S
  BY <1>2, <1>3, Induction
<1>5. e \in E /\ e \in N
  BY NormalFormsNormal DEF N
<1> QED
  BY <1>4, <1>5 DEF S, N

LEMMA WithLeavesNormal ==
    ASSUME NEW E, NEW height, Whole(E, height), NEW p, IsLeaves(E, p), IsWithLeaves(E, p), NEW op \in Logical,
           NEW e \in E, NEW ls \in Seq(E), Len(ls) = Len(p.leaves[op][e]), \A i \in 1..Len(ls) : ls[i] \in NormalForms(E)
    PROVE  p.with[op][<<e, ls>>] \in NormalForms(E)
<1> DEFINE N == NormalForms(E)
           Fits(f, s) == Len(s) = Len(p.leaves[op][f]) /\ \A i \in 1..Len(s) : s[i] \in N
           S == {f \in E : \A s \in Seq(E) : Fits(f, s) => p.with[op][<<f, s>>] \in N}
<1>1. ASSUME NEW f \in E, \A g \in E : height[g] < height[f] => g \in S, NEW s \in Seq(E), Fits(f, s)
      PROVE  p.with[op][<<f, s>>] \in N
  <2>1. CASE f.op = op
    <3>1. /\ f.l \in E /\ f.r \in E /\ height[f.l] < height[f] /\ height[f.r] < height[f]
          /\ \E sl, sr : IsSplit(E, p, op, f, s, sl, sr)
      <4>1. f.op = op /\ Len(s) = Len(p.leaves[op][f])
        BY <1>1, <2>1
      <4> HIDE DEF S, Fits
      <4> QED
        BY <4>1, Subtrees
    <3>2. PICK sl, sr : IsSplit(E, p, op, f, s, sl, sr)
      BY <3>1
    <3>3. sl \in Seq(E) /\ sr \in Seq(E) /\ Len(s) = Len(sl) + Len(sr)
      BY <3>2 DEF IsSplit
    <3>4. Fits(f.l, sl)
      <4>1. \A i \in 1..Len(sl) : i \in 1..Len(s)
        BY <3>3
      <4>2. \A i \in 1..Len(sl) : sl[i] = s[i]
        BY <3>2 DEF IsSplit
      <4>3. Len(sl) = Len(p.leaves[op][f.l])
        BY <3>2 DEF IsSplit
      <4> HIDE DEF N
      <4> QED
        BY <1>1, <4>1, <4>2, <4>3
    <3>5. Fits(f.r, sr)
      <4>1. \A i \in 1..Len(sr) : Len(sl) + i \in 1..Len(s)
        BY <3>3
      <4>2. \A i \in 1..Len(sr) : sr[i] = s[Len(sl) + i]
        BY <3>2 DEF IsSplit
      <4>3. Len(sr) = Len(p.leaves[op][f.r])
        BY <3>2 DEF IsSplit
      <4> HIDE DEF N
      <4> QED
        BY <1>1, <4>1, <4>2, <4>3
    <3>6. p.with[op][<<f.l, sl>>] \in N /\ p.with[op][<<f.r, sr>>] \in N
      <4>1. f.l \in S /\ f.r \in S
        BY <1>1, <3>1
      <4> HIDE DEF Fits, N
      <4> QED
        BY <3>3, <3>4, <3>5, <4>1
    <3>7. p.with[op][<<f, s>>] = Two(op, p.with[op][<<f.l, sl>>], p.with[op][<<f.r, sr>>])
      BY <3>2 DEF IsSplit
    <3> QED
      BY <3>6, <3>7, MakesNormal
  <2>2. CASE f.op # op
    <3>1. p.leaves[op][f] = <<f>>
      BY <2>2 DEF IsLeaves, LeavesStep
    <3>2. Len(s) = 1 /\ s[1] \in N
      BY <1>1, <3>1
    <3>3. p.with[op][<<f, s>>] = s[1]
      BY <1>1, <2>2 DEF IsWithLeaves, WithLeavesStep
    <3> QED
      BY <3>2, <3>3
  <2> QED
    BY <2>1, <2>2
<1>2. height \in [E -> Nat]
  BY DEF Whole
<1>3. Fits(e, ls)
  OBVIOUS
<1> HIDE DEF N, Fits
<1>4. Inherited(E, height, S)
  BY <1>1 DEF Inherited
<1> HIDE DEF S
<1>5. E \subseteq S
  BY <1>2, <1>4, Induction
<1> QED
  BY <1>3, <1>5 DEF S, N

LEMMA JoinNormal ==
    ASSUME NEW E, NEW height, Whole(E, height), NEW op \in Logical, NEW e1 \in NormalForms(E), NEW e2 \in NormalForms(E)
    PROVE  JoinUnequal(op, e1, e2) \in NormalForms(E) \cup {Null}
<1> DEFINE N == NormalForms(E)
           a == About(e1)
<1>1. CASE ~SameSymbol(e1, e2)
  BY <1>1 DEF JoinUnequal
<1>2. CASE SameSymbol(e1, e2)
  <2>1. a \in Symbols /\ a = About(e2) /\ {"y", "m", "n"} \subseteq Consts
    BY <1>2 DEF SameSymbol, Consts
  <2>2. a \notin Bools => \A c \in Consts : Comp("=", a, c) \in N /\ Comp("!=", a, c) \in N
    <3>1. "=" \in Comparisons /\ "!=" \in Comparisons
      BY DEF Comparisons
    <3>2. ASSUME a \notin Bools, NEW c \in Consts, NEW o \in {"=", "!="} PROVE Comp(o, a, c) \in N
      <4> DEFINE f == Comp(o, a, c)
      <4>1. f \in E
        BY <2>1, <3>1, <3>2, Parts
      <4>2. f.op \in Comparisons /\ f.s = a
        BY <3>1, <3>2 DEF Comp
      <4>3. BoolComparison(f) = f
        BY <3>2, <4>2 DEF BoolComparison
      <4> HIDE DEF f
      <4>4. f \in N
        BY <4>1, <4>2, <4>3, MakesNormal
      <4> QED
        BY <4>4 DEF f
    <3> QED
      BY <3>2
  <2>3. Sym(a) \in N /\ Sym("y") \in N /\ Sym("n") \in N
    BY <2>1, MakesNormal
  <2>4. a \in Tristates => a \notin Bools
    BY SymbolsAssumption
  <2>5. e1.t \in Consts /\ e2.t \in Consts /\ e1.t # e2.t => Third(e1, e2) \in Consts
    BY ThirdIsThird
  <2>6. ASSUME NEW f \in {e1, e2}, f.op \in {"=", "!="}
        PROVE  f = Comp(f.op, a, f.t) /\ (f.t = "m" => a \notin Bools)
    <3>1. f \in E /\ f.op \in Comparisons /\ f \in N /\ About(f) = f.s /\ f.s = a
      BY <2>1, <2>6, NormalFormsNormal DEF Comparisons, About
    <3>2. f = Comp(f.op, f.s, f.t)
      BY <3>1, KindsOf
    <3>3. BoolComparison(f) = f
      BY <3>1, NormalFormsNormal DEF IsNormal
    <3>4. ASSUME f.t = "m", a \in Bools PROVE FALSE
      <4>1. BoolComparison(f).op = "sym"
        BY <2>6, <3>1, <3>4 DEF BoolComparison, IsConst, Consts, Sym
      <4> QED
        BY <2>6, <3>3, <4>1
    <3> QED
      BY <3>1, <3>2, <3>4
  <2>7. With(e1, e2, "=", "y") => Comp("=", a, "y") \in N
    BY <2>6 DEF With
  <2>8. With(e1, e2, "!=", "m") => a \notin Bools
    BY <2>6 DEF With
  <2> HIDE DEF N, a
  <2>9. JoinOr(e1, e2) \in N \cup {Null}
    <3>1. \/ JoinOr(e1, e2) \in {Null, Sym("y")}
          \/ a \in Tristates /\ Third(e1, e2) \in Consts /\ JoinOr(e1, e2) = Comp("!=", a, Third(e1, e2))
      BY <2>5 DEF JoinOr, IsConst, a
    <3> QED
      BY <2>2, <2>3, <2>4, <3>1
  <2>10. JoinAnd(e1, e2) \in N \cup {Null}
    <3>1. \/ JoinAnd(e1, e2) \in {Null, Sym(a), Sym("n")}
          \/ With(e1, e2, "=", "y") /\ JoinAnd(e1, e2) = Comp("=", a, "y")
          \/ With(e1, e2, "!=", "m") /\ JoinAnd(e1, e2) = Comp("=", a, "y")
          \/ a \in Tristates /\ \E c \in Consts : JoinAnd(e1, e2) = Comp("=", a, c)
      BY <2>1, <2>5 DEF JoinAnd, IsConst, a
    <3> QED
      BY <2>1, <2>2, <2>3, <2>4, <2>7, <2>8, <3>1
  <2> QED
    BY <1>2, <2>9, <2>10 DEF JoinUnequal, N
<1> QED
  BY <1>1, <1>2

(* One round of expr_eliminate_dups1.                                      *)
LEMMA WithBothSize ==
    ASSUME NEW E, NEW height, Whole(E, height), NEW size, IsSize(E, size), NEW p, IsLeaves(E, p), IsWithLeaves(E, p),
           NEW op \in Logical, NEW e \in E, NEW ls \in Seq(E), Len(ls) = Len(p.leaves[op][e]),
           NEW i \in 1..Len(ls), NEW j \in 1..Len(ls), i # j, NEW both, both.e1 \in E, both.e2 \in E,
           size[both.e1] + size[both.e2] <= size[ls[i]] + size[ls[j]]
    PROVE  size[p.with[op][<<e, WithBoth(ls, i, j, both)>>]] <= size[p.with[op][<<e, ls>>]]
<1> DEFINE a == both.e1
           b == both.e2
           ls1 == [ls EXCEPT ![i] = a]
           ls2 == [ls1 EXCEPT ![j] = b]
           Size(s) == size[p.with[op][<<e, s>>]]
<1>1. WithBoth(ls, i, j, both) = ls2
  BY DEF WithBoth
<1> HIDE DEF a, b
<1>2. a \in E /\ b \in E
  BY DEF a, b
<1>3. IsReplaced(E, ls1, ls, i, a) /\ ls1 \in Seq(E) /\ Len(ls1) = Len(ls) /\ ls1[j] = ls[j]
  BY <1>2, Replaced DEF IsReplaced
<1> HIDE DEF ls1
<1>4. IsReplaced(E, ls2, ls1, j, b)
  BY <1>2, <1>3, Replaced
<1> HIDE DEF ls2
<1>5. Size(ls1) = Size(ls) - size[ls[i]] + size[a]
  BY <1>2, <1>3, WithLeafSize
<1>6. Size(ls2) = Size(ls1) - size[ls1[j]] + size[b]
  BY <1>2, <1>3, <1>4, WithLeafSize
<1>7. Size(ls) \in Nat
  <2>1. p.with[op][<<e, ls>>] \in E
    BY DEF IsWithLeaves
  <2> QED
    BY <2>1, Sizes
<1>8. ls[i] \in E /\ ls[j] \in E
  OBVIOUS
<1>9. size[ls[i]] \in Nat /\ size[ls[j]] \in Nat /\ size[a] \in Nat /\ size[b] \in Nat
  BY <1>2, <1>8, Sizes
<1>10. size[a] + size[b] <= size[ls[i]] + size[ls[j]]
  BY DEF a, b
<1> HIDE DEF Size
<1>11. ls1[j] = ls[j]
  BY <1>3
<1>12. Size(ls2) <= Size(ls)
  BY <1>5, <1>6, <1>7, <1>9, <1>10, <1>11
<1> QED
  BY <1>1, <1>12 DEF Size

(* What expr_eliminate_dups1 has made of an operand: nothing, when it has   *)
(* counted nothing, and else something that becomes smaller.  It is normal *)
(* if the operand was.                                                     *)
IsSimpler(E, size, yn, inner, e) ==
    /\ inner.e \in E /\ inner.count \in Nat /\ size[inner.e] <= size[e]
    /\ e \in NormalForms(E) => inner.e \in NormalForms(E)
    /\ inner.count = 0 => inner.e = e
    /\ inner.count > 0 => Shrinks(size, yn, inner.e)

LEMMA BothSize ==
    ASSUME NEW E, NEW height, Whole(E, height), NEW size, IsSize(E, size), NEW yn,
           NEW op \in Logical, NEW e \in E, NEW f \in E, NEW inner, IsSimpler(E, size, yn, inner, e),
           NEW join, join \in E \cup {Null}, join = inner.e \/ join = Null \/ join.op \in Comparisons \cup {"sym"}
    PROVE  LET both == Joined(op, inner, f, join)
           IN  size[both.e1] + size[both.e2] <= size[e] + size[f]
<1>1. inner.e \in E /\ size[inner.e] <= size[e]
  BY DEF IsSimpler
<1>2. size[inner.e] \in Nat \ {0} /\ size[e] \in Nat \ {0} /\ size[f] \in Nat \ {0}
  BY <1>1, Sizes
<1>3. Neutral(op) \in E /\ size[Neutral(op)] = 1
  <2>1. Neutral(op) \in E /\ Neutral(op).op = "sym"
    BY Parts DEF Neutral, Sym
  <2> QED
    BY <2>1, Sizes
<1>4. join \in E /\ join.op \in Comparisons \cup {"sym"} => size[join] = 1
  BY Sizes
<1>5. CASE join = Null
  BY <1>1, <1>2, <1>5 DEF Joined
<1>6. CASE join # Null
  <2>1. size[join] = 1 \/ size[join] = size[inner.e]
    BY <1>4, <1>6
  <2> QED
    BY <1>1, <1>2, <1>3, <1>6, <2>1 DEF Joined
<1> QED
  BY <1>5, <1>6

(* As long as nothing is counted the operands are the first ones, and then  *)
(* one of them is marked.                                                  *)
IsCounted(E, size, yn, op, first, ls, count) ==
    /\ count \in Nat
    /\ count = 0 => ls = first
    /\ count > 0 => \E i \in 1..Len(ls) : Marked(size, yn, op, ls[i])

LEMMA RoundCounts ==
    ASSUME NEW E, NEW size, NEW yn, NEW op, NEW first, NEW ls \in Seq(E), NEW count,
           IsCounted(E, size, yn, op, first, ls, count),
           NEW i \in 1..Len(ls), NEW j \in 1..Len(ls), i # j,
           NEW inner, IsSimpler(E, size, yn, inner, ls[i]), NEW join
    PROVE  LET both == Joined(op, inner, ls[j], join)
           IN  IsCounted(E, size, yn, op, first, WithBoth(ls, i, j, both), count + both.count)
<1> DEFINE both == Joined(op, inner, ls[j], join)
           new == WithBoth(ls, i, j, both)
<1>1. /\ inner.count \in Nat /\ count \in Nat
      /\ inner.count = 0 => inner.e = ls[i]
      /\ inner.count > 0 => Shrinks(size, yn, inner.e)
  BY DEF IsSimpler, IsCounted
<1>2. Len(new) = Len(ls) /\ new[i] = both.e1 /\ new[j] = both.e2 /\ \A h \in 1..Len(ls) : h # i /\ h # j => new[h] = ls[h]
  BY DEF WithBoth
<1>3. CASE join # Null
  <2>1. new[i] = Neutral(op) /\ both.count = inner.count + 1
    BY <1>2, <1>3 DEF Joined
  <2>2. count + both.count \in Nat /\ count + both.count > 0
    BY <1>1, <2>1
  <2>3. Marked(size, yn, op, new[i])
    BY <2>1 DEF Marked
  <2> HIDE DEF new, both
  <2> QED
    BY <1>2, <2>2, <2>3 DEF IsCounted, new, both
<1>4. CASE join = Null
  <2>1. new[i] = inner.e /\ new[j] = ls[j] /\ both.count = inner.count
    BY <1>2, <1>4 DEF Joined
  <2>2. CASE inner.count = 0
    <3>1. both.e1 = ls[i] /\ both.e2 = ls[j]
      BY <1>1, <1>4, <2>2 DEF Joined
    <3>2. new = ls
      BY <3>1 DEF WithBoth
    <3>3. count + both.count = count
      BY <1>1, <2>1, <2>2
    <3> HIDE DEF new, both
    <3> QED
      BY <3>2, <3>3 DEF new, both
  <2>3. CASE inner.count > 0
    <3>1. Marked(size, yn, op, new[i])
      BY <1>1, <2>1, <2>3 DEF Marked
    <3>2. count + both.count \in Nat /\ count + both.count > 0
      BY <1>1, <2>1, <2>3
    <3> HIDE DEF new, both
    <3> QED
      BY <1>2, <3>1, <3>2 DEF IsCounted, new, both
  <2> QED
    BY <1>1, <2>2, <2>3
<1> QED
  BY <1>3, <1>4

LEMMA DupsSimpler ==
    ASSUME NEW E, NEW height, Whole(E, height), NEW v, NEW val, Calculated(E, v, val),
           NEW nesting, IsNesting(E, nesting), NEW size, IsSize(E, size),
           NEW p, IsComparison(E, p), IsDups(E, p), NEW e \in E
    PROVE  IsSimpler(E, size, p.yn, p.dups[e], e)
<1> DEFINE N == NormalForms(E)
           Good(x) == IsSimpler(E, size, p.yn, p.dups[x], x)
           S == {x \in E : Good(x)}
<1>1. ASSUME NEW x \in E, \A g \in E : nesting[g] < nesting[x] => g \in S
      PROVE  Good(x)
  <2>1. CASE x.op \notin Logical
    <3>1. p.dups[x].e = x /\ p.dups[x].count = 0
      <4>1. p.dups[x] = [e |-> x, count |-> 0]
        BY <2>1 DEF IsDups
      <4> QED
        BY <4>1
    <3>2. size[x] \in Nat
      BY Sizes
    <3> QED
      BY <3>1, <3>2 DEF IsSimpler
  <2>2. CASE x.op \in Logical
    <3> DEFINE op == x.op
               first == p.leaves[op][x]
               n == Len(first) * Len(first)
               d == nesting[x]
               Tree(ls) == p.with[op][<<x, ls>>]
    <3>1. /\ first \in Seq(E) /\ Len(first) \in Nat \ {0} /\ DOMAIN first = 1..Len(first)
          /\ \A i \in DOMAIN first : first[i].op # op /\ nesting[first[i]] < d
      <4>1. op \in Logical /\ Inside(nesting, op, x) = d
        BY <2>2 DEF Inside
      <4>2. IsLeaves(E, p)
        BY DEF IsComparison
      <4> HIDE DEF op, d
      <4> QED
        BY <4>1, <4>2, LeavesOf
    <3>2. PICK r \in [0..n -> [ls : Seq(E), count : Nat]] :
            /\ r[0] = [ls |-> first, count |-> 0]
            /\ \A k \in 0..(n - 1) :
                 r[k + 1] = JoinRound(LAMBDA y : p.dups[y], LAMBDA y, z : p.eq[<<y, z>>], op, r[k], k)
            /\ p.dups[x] = [e |-> p.with[op][<<x, r[n].ls>>], count |-> r[n].count]
      BY <2>2 DEF IsDups
    <3>3. op \in Logical /\ d \in Nat \ {0} /\ n \in Nat
      <4>1. first[1] \in E /\ 1 \in DOMAIN first
        BY <3>1
      <4>2. nesting[first[1]] \in Nat /\ d \in Nat /\ nesting[first[1]] < d
        BY <3>1, <4>1, NestingType
      <4>3. d \in Nat \ {0}
        BY <4>2
      <4> HIDE DEF d
      <4> QED
        BY <2>2, <3>1, <4>3
    <3>4. IsLeaves(E, p) /\ IsWithLeaves(E, p) /\ IsYn(E, p.yn)
      BY DEF IsComparison
    <3>5. Tree(first) = x /\ size[x] \in Nat
      BY <2>2, <3>4, OwnLeaves, Sizes
    <3> DEFINE Kept(q) == /\ q.ls \in Seq(E) /\ Len(q.ls) = Len(first) /\ DOMAIN q.ls = 1..Len(first)
                          /\ \A i \in 1..Len(first) : q.ls[i].op # op /\ nesting[q.ls[i]] < d
                          /\ x \in N => \A i \in 1..Len(first) : q.ls[i] \in N
                          /\ size[Tree(q.ls)] <= size[x]
                          /\ IsCounted(E, size, p.yn, op, first, q.ls, q.count)
               T == {k \in 0..n : Kept(r[k])}
    <3>6. 0 \in T
      <4>1. r[0].ls = first /\ r[0].count = 0
        <5>1. r[0] = [ls |-> first, count |-> 0]
          BY <3>2
        <5> QED
          BY <5>1
      <4>2. IsCounted(E, size, p.yn, op, first, r[0].ls, r[0].count)
        BY <4>1 DEF IsCounted
      <4>3. x \in N => \A i \in 1..Len(first) : first[i] \in N
        <5> SUFFICES ASSUME x \in N PROVE \A i \in 1..Len(first) : first[i] \in N
          OBVIOUS
        <5>1. first \in Seq(N)
          BY <2>2, <3>4, LeavesNormal
        <5> HIDE DEF first, N
        <5> QED
          BY <5>1
      <4> HIDE DEF first, op, d, Tree, N
      <4> QED
        BY <3>1, <3>3, <3>5, <4>1, <4>2, <4>3
    <3>7. x.op = op /\ first = p.leaves[op][x]
      OBVIOUS
    <3> HIDE DEF op, first, d
    <3>8. ASSUME NEW k \in 0..(n - 1), Kept(r[k]) PROVE Kept(r[k + 1])
      <4> DEFINE ls == r[k].ls
                 i == Row(k, ls)
                 j == Column(k, ls)
                 inner == p.dups[ls[i]]
                 join == IF p.eq[<<inner.e, ls[j]>>] THEN inner.e ELSE JoinUnequal(op, inner.e, ls[j])
                 both == Joined(op, inner, ls[j], join)
                 new == WithBoth(ls, i, j, both)
      <4>1. r[k + 1] = r[k] \/ (i # j /\ r[k + 1].ls = new /\ r[k + 1].count = r[k].count + both.count)
        <5>1. r[k + 1] = JoinRound(LAMBDA y : p.dups[y], LAMBDA y, z : p.eq[<<y, z>>], op, r[k], k)
          BY <3>2
        <5>2. r[k + 1] = r[k] \/ (i # j /\ r[k + 1] = [ls |-> new, count |-> r[k].count + both.count])
          BY <5>1 DEF JoinRound
        <5> HIDE DEF both, i, j, ls, new
        <5> QED
          BY <5>2
      <4>2. CASE r[k + 1] = r[k]
        BY <3>8, <4>2
      <4>3. CASE i # j /\ r[k + 1].ls = new /\ r[k + 1].count = r[k].count + both.count
        <5>1. /\ ls \in Seq(E) /\ Len(ls) = Len(first) /\ DOMAIN ls = 1..Len(first)
              /\ \A h \in 1..Len(first) : ls[h].op # op /\ nesting[ls[h]] < d
              /\ x \in N => \A h \in 1..Len(first) : ls[h] \in N
              /\ size[Tree(ls)] <= size[x]
              /\ IsCounted(E, size, p.yn, op, first, ls, r[k].count)
          BY <3>8
        <5>2. i \in 1..Len(first) /\ j \in 1..Len(first)
          <6>1. k \in 0..(Len(first) * Len(first) - 1) /\ Len(ls) = Len(first)
            BY <5>1
          <6> HIDE DEF ls
          <6> QED
            BY <3>1, <6>1, Pairs
        <5>3. i # j
          BY <4>3
        <5> HIDE DEF ls, i, j
        <5>4. /\ ls[i] \in E /\ ls[i].op # op /\ nesting[ls[i]] < d
              /\ ls[j] \in E /\ ls[j].op # op /\ nesting[ls[j]] < d
          BY <5>1, <5>2
        <5>5. inner.e \in E /\ inner.e.op # op /\ nesting[inner.e] < d
          <6>1. inner.e \in E /\ inner.e.op = ls[i].op /\ nesting[inner.e] <= nesting[ls[i]]
            BY <5>4, DupsOf
          <6>2. nesting[inner.e] \in Nat /\ nesting[ls[i]] \in Nat /\ d \in Nat
            BY <3>3, <5>4, <6>1, NestingType
          <6> QED
            BY <5>4, <6>1, <6>2
        <5>6. IsSimpler(E, size, p.yn, inner, ls[i])
          <6>1. ls[i] \in S
            BY <1>1, <5>4 DEF d
          <6> QED
            BY <6>1
        <5> HIDE DEF inner
        <5>7. /\ join = Null \/ (join \in E /\ join.op # op /\ nesting[join] < d)
              /\ join = inner.e \/ join = Null \/ join.op \in Comparisons \cup {"sym"}
          BY <3>3, <5>4, <5>5, JoinOf DEF join
        <5>8. x \in N => join \in N \cup {Null} /\ inner.e \in N /\ ls[j] \in N
          <6> SUFFICES ASSUME x \in N PROVE join \in N \cup {Null} /\ inner.e \in N /\ ls[j] \in N
            OBVIOUS
          <6>1. ls[i] \in N /\ ls[j] \in N
            BY <5>1, <5>2
          <6>2. inner.e \in N
            BY <5>6, <6>1 DEF IsSimpler
          <6>3. JoinUnequal(op, inner.e, ls[j]) \in N \cup {Null}
            BY <3>3, <6>1, <6>2, JoinNormal
          <6> HIDE DEF N
          <6> QED
            BY <6>1, <6>2, <6>3 DEF join
        <5> HIDE DEF join
        <5>9. \A f \in {both.e1, both.e2} : f \in E /\ f.op # op /\ nesting[f] < d
          BY <3>3, <5>4, <5>5, <5>7, BothOf DEF both
        <5>10. size[both.e1] + size[both.e2] <= size[ls[i]] + size[ls[j]]
          BY <3>3, <5>4, <5>6, <5>7, BothSize DEF both
        <5>11. IsCounted(E, size, p.yn, op, first, new, r[k].count + both.count)
          <6>1. i \in 1..Len(ls) /\ j \in 1..Len(ls)
            BY <5>1, <5>2
          <6> QED
            BY <5>1, <5>3, <5>6, <6>1, RoundCounts DEF both
        <5> HIDE DEF both
        <5>12. /\ new \in Seq(E) /\ Len(new) = Len(first) /\ DOMAIN new = 1..Len(first)
               /\ \A h \in 1..Len(first) : new[h].op # op /\ nesting[new[h]] < d
               /\ x \in N => \A h \in 1..Len(first) : new[h] \in N
          <6>1. /\ ls \in Seq(E) /\ Len(ls) = Len(first) /\ DOMAIN ls = 1..Len(first)
                /\ \A h \in 1..Len(first) : ls[h].op # op /\ nesting[ls[h]] < d
            BY <5>1
          <6> DEFINE a == both.e1
                     b == both.e2
          <6>2. a \in E /\ a.op # op /\ nesting[a] < d /\ b \in E /\ b.op # op /\ nesting[b] < d
            BY <5>9
          <6>3. new = [[ls EXCEPT ![i] = a] EXCEPT ![j] = b]
            BY DEF WithBoth
          <6> HIDE DEF a, b, new
          <6>4. new \in Seq(E) /\ Len(new) = Len(first) /\ DOMAIN new = 1..Len(first)
            BY <5>2, <6>1, <6>2, <6>3
          <6>5. \A h \in 1..Len(first) : new[h] \in {a, b, ls[h]}
            BY <5>2, <6>1, <6>3
          <6>6. x \in N => a \in N /\ b \in N
            <7>1. Neutral(op) \in N
              BY MakesNormal DEF Neutral, Consts
            <7> HIDE DEF N
            <7> QED
              BY <5>8, <7>1 DEF a, b, both, Joined
          <6>7. x \in N => \A h \in 1..Len(first) : new[h] \in N
            <7> HIDE DEF N
            <7> QED
              BY <5>1, <6>5, <6>6
          <6> HIDE DEF N
          <6> QED
            BY <6>1, <6>2, <6>4, <6>5, <6>7
        <5>13. size[Tree(new)] <= size[x]
          <6>1. i \in 1..Len(ls) /\ j \in 1..Len(ls) /\ both.e1 \in E /\ both.e2 \in E /\ Len(ls) = Len(p.leaves[op][x])
            BY <3>7, <5>1, <5>2, <5>9
          <6>2. size[Tree(new)] <= size[Tree(ls)]
            BY <3>3, <3>4, <5>1, <5>3, <5>10, <6>1, WithBothSize
          <6>3. new \in Seq(E) /\ Tree(new) \in E /\ Tree(ls) \in E
            <7>1. new \in Seq(E)
              BY <5>12
            <7>2. ls \in Seq(E)
              BY <5>1
            <7> HIDE DEF new
            <7> QED
              BY <3>3, <3>4, <7>1, <7>2, TreeType
          <6> HIDE DEF Tree, new
          <6>4. size[Tree(new)] \in Nat /\ size[Tree(ls)] \in Nat
            BY <6>3, Sizes
          <6> QED
            BY <3>5, <5>1, <6>2, <6>4
        <5> HIDE DEF new, Tree, N
        <5> QED
          BY <4>3, <5>11, <5>12, <5>13
      <4> QED
        BY <4>1, <4>2, <4>3
    <3>9. Kept(r[n])
      <4>1. 0 \in T /\ \A k \in 0..(n - 1) : k \in T => k + 1 \in T
        <5>1. \A k \in 0..(n - 1) : k \in 0..n /\ k + 1 \in 0..n
          BY <3>3
        <5> HIDE DEF Kept
        <5> QED
          BY <3>6, <3>8, <5>1
      <4> HIDE DEF T, n
      <4>2. 0..n \subseteq T
        BY <3>3, <4>1, Rounds
      <4>3. n \in T
        BY <3>3, <4>2
      <4> QED
        BY <4>3 DEF T
    <3> DEFINE last == r[n].ls
               count == r[n].count
    <3>10. p.dups[x].e = Tree(last) /\ p.dups[x].count = count
      <4>1. p.dups[x] = [e |-> Tree(last), count |-> count]
        BY <3>2
      <4> HIDE DEF Tree, last, count
      <4> QED
        BY <4>1
    <3>11. /\ last \in Seq(E) /\ Len(last) = Len(first) /\ size[Tree(last)] <= size[x]
           /\ x \in N => \A i \in 1..Len(first) : last[i] \in N
           /\ IsCounted(E, size, p.yn, op, first, last, count)
      BY <3>9
    <3> HIDE DEF last, count, n
    <3>12. Tree(last) \in E
      BY <3>3, <3>4, <3>11 DEF IsWithLeaves
    <3>13. count = 0 => Tree(last) = x
      BY <3>5, <3>11 DEF IsCounted
    <3>14. count > 0 => Shrinks(size, p.yn, Tree(last))
      <4> SUFFICES ASSUME count > 0 PROVE Shrinks(size, p.yn, Tree(last))
        OBVIOUS
      <4>1. PICK i \in 1..Len(last) : Marked(size, p.yn, op, last[i])
        BY <3>11 DEF IsCounted
      <4>2. Len(last) = Len(p.leaves[op][x])
        BY <3>7, <3>11
      <4> QED
        BY <3>3, <3>4, <3>7, <3>11, <4>1, <4>2, MarkedLeaf
    <3>15. x \in N => Tree(last) \in N
      <4> SUFFICES ASSUME x \in N PROVE Tree(last) \in N
        OBVIOUS
      <4>1. \A i \in 1..Len(last) : last[i] \in N
        <5> HIDE DEF N, Tree
        <5> QED
          BY <3>11
      <4>2. Len(last) = Len(p.leaves[op][x])
        BY <3>7, <3>11
      <4> QED
        BY <3>3, <3>4, <3>11, <4>1, <4>2, WithLeavesNormal
    <3>16. count \in Nat
      BY <3>11 DEF IsCounted
    <3> HIDE DEF Tree
    <3> QED
      BY <3>10, <3>11, <3>12, <3>13, <3>14, <3>15, <3>16 DEF IsSimpler
  <2> QED
    BY <2>1, <2>2
<1>2. nesting \in [E -> Nat]
  BY DEF IsNesting
<1> HIDE DEF Good
<1>3. Inherited(E, nesting, S)
  BY <1>1 DEF Inherited
<1> HIDE DEF S
<1>4. E \subseteq S
  BY <1>2, <1>3, Induction
<1> QED
  BY <1>4 DEF S, Good

(* expr_eliminate_dups ends: an expression allows no more passes that join *)
(* something than it has nodes.                                            *)
THEOREM EliminateDupsEnds ==
    ASSUME NEW E, NEW height, Whole(E, height), NEW v, NEW val, Calculated(E, v, val),
           NEW nesting, IsNesting(E, nesting), NEW size, IsSize(E, size),
           NEW p, IsComparison(E, p), IsDups(E, p),
           NEW n \in Nat, NEW pass \in [0..n -> E],
           \A k \in 0..(n - 1) : p.dups[pass[k]].count > 0 /\ pass[k + 1] = p.yn[p.dups[pass[k]].e]
    PROVE  n < size[pass[0]]
<1> DEFINE S == {k \in 0..n : size[pass[k]] + k <= size[pass[0]]}
<1>1. \A k \in 0..n : pass[k] \in E /\ size[pass[k]] \in Nat \ {0}
  <2>1. \A k \in 0..n : pass[k] \in E
    OBVIOUS
  <2> QED
    BY <2>1, Sizes
<1>2. 0 \in S
  BY <1>1
<1>3. ASSUME NEW k \in 0..(n - 1), k \in S PROVE k + 1 \in S
  <2>1. k \in 0..n /\ k + 1 \in 0..n /\ 0 \in 0..n
    OBVIOUS
  <2> DEFINE inner == p.dups[pass[k]]
  <2>2. IsSimpler(E, size, p.yn, inner, pass[k])
    BY <1>1, <2>1, DupsSimpler
  <2>3. inner.count > 0 /\ pass[k + 1] = p.yn[inner.e]
    BY <1>3
  <2> HIDE DEF inner
  <2>4. inner.e \in E /\ size[inner.e] <= size[pass[k]] /\ size[pass[k + 1]] < size[inner.e]
    BY <2>2, <2>3 DEF IsSimpler, Shrinks
  <2>5. size[inner.e] \in Nat
    BY <2>4, Sizes
  <2>6. size[pass[k]] + k <= size[pass[0]]
    BY <1>3
  <2>7. size[pass[k + 1]] + (k + 1) <= size[pass[0]]
    BY <1>1, <2>1, <2>4, <2>5, <2>6
  <2> QED
    BY <2>1, <2>7
<1>4. n \in S
  <2> HIDE DEF S
  <2>1. 0..n \subseteq S
    BY <1>2, <1>3, Rounds
  <2> QED
    BY <2>1
<1>5. size[pass[n]] + n <= size[pass[0]] /\ size[pass[n]] \in Nat \ {0} /\ size[pass[0]] \in Nat
  BY <1>1, <1>4
<1> QED
  BY <1>5

-----------------------------------------------------------------------------
(* A condition that inherits a dependency (menu.c:387-396), and menu.c:397,  *)
(* for the prompt of a symbol that is not tristate: base is what its menu    *)
(* depends on, e the condition as it stands in the file.                     *)

(* Inheriting keeps what both mean, and ends in a normal expression, so that *)
(* the base of the next menu is normal too and expr_trans_bool never meets a *)
(* negation below which FOO!=n and FOO would differ.                         *)
THEOREM PropagatedKeeps ==
    ASSUME NEW E, NEW height, Whole(E, height), NEW v, NEW val, Calculated(E, v, val),
           NEW nesting, IsNesting(E, nesting), NEW size, IsSize(E, size),
           NEW p, IsComparison(E, p), IsDups(E, p),
           NEW trans, IsTransform(E, trans), NEW bare, IsTransBool(E, bare),
           NEW base \in NormalForms(E), NEW e \in E,
           NEW n \in Nat, NEW pass \in [0..n -> E], pass[0] = And(base, trans[e]),
           \A k \in 0..(n - 1) : pass[k + 1] = p.yn[p.dups[pass[k]].e]
    PROVE  LET dep == p.dups[pass[n]].e
           IN  /\ dep \in NormalForms(E)
               /\ val[dep] = Least(val[base], val[e])
               /\ val[bare[dep]] = 0 <=> Least(val[base], val[e]) = 0
<1> DEFINE N == NormalForms(E)
           S == {k \in 0..n : pass[k] \in N}
<1>1. trans[e] \in N /\ val[trans[e]] = val[e]
  BY TransformKeeps
<1>2. N \subseteq E
  BY NormalFormsNormal
<1>3. pass[0] \in N /\ val[pass[0]] = Least(val[base], val[e])
  <2>1. val[base] \in 0..2 /\ val[trans[e]] \in 0..2 /\ val[Null] = 2
    <3>1. base \in E /\ trans[e] \in E /\ Null \in E
      BY <1>1, <1>2, Parts
    <3> HIDE DEF N
    <3> QED
      BY <3>1, Values
  <2>2. CASE base = Null
    <3>1. pass[0] = trans[e]
      BY <2>2 DEF And, Alloc
    <3> QED
      BY <1>1, <2>1, <2>2, <3>1 DEF Least
  <2>3. CASE base # Null /\ trans[e] = Null
    <3>1. pass[0] = base
      BY <2>3 DEF And, Alloc
    <3> QED
      BY <1>1, <2>1, <2>3, <3>1 DEF Least
  <2>4. CASE base # Null /\ trans[e] # Null
    <3>1. pass[0] = Two("and", base, trans[e])
      BY <2>4 DEF And, Alloc
    <3>2. Two("and", base, trans[e]) \in N
      BY <1>1, MakesNormal DEF Logical
    <3>3. val[Two("and", base, trans[e])] = LevelValue("and", val[base], val[trans[e]])
      BY <1>2, <3>2, Values DEF Logical
    <3> QED
      BY <1>1, <3>1, <3>2, <3>3 DEF LevelValue
  <2> QED
    BY <2>2, <2>3, <2>4
<1>4. ASSUME NEW x \in N PROVE p.dups[x].e \in N
  <2>1. IsSimpler(E, size, p.yn, p.dups[x], x)
    BY <1>2, DupsSimpler
  <2> QED
    BY <2>1 DEF IsSimpler
<1>5. ASSUME NEW k \in 0..(n - 1), k \in S PROVE k + 1 \in S
  <2>1. p.dups[pass[k]].e \in N
    BY <1>4, <1>5
  <2>2. IsYn(E, p.yn)
    BY DEF IsComparison
  <2>3. p.yn[p.dups[pass[k]].e] \in N
    BY <2>1, <2>2, YnNormal
  <2>4. k + 1 \in 0..n
    OBVIOUS
  <2> QED
    BY <2>3, <2>4
<1>6. 0 \in S
  BY <1>3
<1>7. n \in S
  <2> HIDE DEF S
  <2>1. 0..n \subseteq S
    BY <1>5, <1>6, Rounds
  <2> QED
    BY <2>1
<1>8. p.dups[pass[n]].e \in N
  BY <1>4, <1>7
<1>9. val[p.dups[pass[n]].e] = val[pass[0]]
  BY EliminateDupsKeeps
<1>10. (val[bare[p.dups[pass[n]].e]] = 0) = (val[p.dups[pass[n]].e] = 0)
  BY <1>8, TransBoolKeepsNo
<1> QED
  BY <1>3, <1>8, <1>9, <1>10
=============================================================================
