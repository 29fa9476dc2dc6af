--------------------------- MODULE MCKconfigMenu ---------------------------
(***************************************************************************)
(* Small Config.in files: tristates t (also the symbol of the choice) and  *)
(* a, bools b and q, and the symbol with `option modules'.                 *)
(***************************************************************************)
EXTENDS KconfigMenu

Eq(s, t) == Comp("=", s, t)
Ne(s, t) == Comp("!=", s, t)
AND(e, f) == Two("and", e, f)
OR(e, f) == Two("or", e, f)

T == Sym("t")
A == Sym("a")
B == Sym("b")
M == Sym("m")
Q == Sym("MODULES")

MCEnclosing == << {T, Not(AND(T, M)), OR(Eq("t", "y"), Eq("t", "m"))}, {Not(AND(T, M))}, {} >>
MCVisibles == {Null, OR(Ne("t", "n"), Eq("MODULES", "n"))}

Rich ==
    { Null, A, B, Not(B), Eq("b", "m"),
      AND(A, Ne("a", "n")), AND(Ne("a", "m"), Ne("a", "n")), AND(A, Ne("a", "m")),
      AND(Eq("a", "m"), Ne("a", "y")), OR(Eq("a", "m"), Eq("a", "n")),
      OR(Not(B), B), OR(B, AND(T, B)), OR(B, Q), Not(OR(Eq("b", "n"), Ne("t", "n"))),
      AND(OR(A, Q), OR(Q, A)), AND(OR(AND(A, Eq("a", "y")), Q), T),
      Not(Comp("<", "a", "t")), Not(AND(Not(M), Comp("<=", "a", "m"))),
      AND(OR(Not(Eq("t", "n")), Not(AND(B, B))), OR(AND(B, T), AND(T, B))) }

\* a and b in either order, and q after both.
MCConditions == [s \in Defined |-> IF s = "q" THEN {AND(B, OR(A, T))} ELSE Rich]
MCPrompts == [s \in Defined |-> IF s = "q" THEN {Null} ELSE {NoPrompt} \cup MCVisibles]
MCSelects == [s \in Defined |-> IF s = "q" THEN {NoSelect} ELSE {NoSelect, Ne("a", "n")}]

\* Three symbols at the top and in a block, one in a block of a block.
MCMaxEntries == [d \in 0..2 |-> IF d = 2 THEN 1 ELSE 3]
=============================================================================
