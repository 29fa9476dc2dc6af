-------------------------- MODULE MCKconfigSymbol --------------------------
(***************************************************************************)
(* Small tables: selects and implies between tristates, with and without   *)
(* modules; a choice with a member that comes and goes; a tristate choice; *)
(* a number with a range whose bound is another number; and tables with a  *)
(* dependency too many.                                                    *)
(***************************************************************************)
EXTENDS KconfigSymbol

MCLiteralValue == [c1 |-> 1, c3 |-> 3, c5 |-> 5]

If(v, c) == [val |-> v, cond |-> c]
AND(e, f) == Two("and", e, f)
Everywhere(x) == [s \in Syms |-> x]
Plain == [ prompts |-> Everywhere(<<>>), dir |-> Everywhere(Null), rev |-> Everywhere(Null),
           imp |-> Everywhere(Null), implies |-> Everywhere(<<>>), defs |-> Everywhere(<<>>), ranges |-> Everywhere(<<>>),
           members |-> [c \in ChoiceSyms |-> <<>>], auto |-> {}, syms |-> {} ]

D == Sym("d")
T == Sym("t")
U == Sym("u")

\* u depends on t and is selected by d; x follows t and is implied by u.
Selects ==
    [Plain EXCEPT !.syms = {"MODULES", "d", "t", "u", "x"},
                  !.defs["MODULES"] = <<If(Sym("y"), Null)>>, !.prompts["d"] = <<Null>>,
                  !.defs["t"] = <<If(Sym("y"), D), If(Sym("m"), Null)>>, !.prompts["u"] = <<T>>, !.dir["u"] = T, !.rev["u"] = AND(D, Sym("m")),
                  !.defs["x"] = <<If(U, AND(T, D)), If(T, Null)>>, !.imp["x"] = U, !.implies["u"] = <<T>>]
Implies ==
    [Plain EXCEPT !.syms = {"MODULES", "d", "t", "u", "x"},
                  !.prompts["MODULES"] = <<D>>, !.prompts["d"] = <<Null>>,
                  !.prompts["t"] = <<Null>>, !.prompts["u"] = <<T, D>>, !.imp["u"] = Two("or", T, D), !.implies["t"] = <<Null>>, !.implies["d"] = <<Null>>,
                  !.defs["u"] = <<If(Sym("m"), D)>>, !.rev["x"] = AND(U, Sym("m"))]

\* t implies x if u, without and with a dependency of u on t.
ImpliesIf ==
    [Plain EXCEPT !.syms = {"d", "t", "u", "x"},
                  !.prompts["d"] = <<Null>>, !.prompts["t"] = <<Null>>, !.prompts["u"] = <<D>>,
                  !.implies["t"] = <<U>>, !.imp["x"] = AND(T, U), !.prompts["x"] = <<Null>>]
ImpliesCycle == [ImpliesIf EXCEPT !.prompts["u"] = <<T>>, !.dir["u"] = T]

\* A choice of p and q, where q depends on d, and what depends on the members.
Choice ==
    [Plain EXCEPT !.syms = {"d", "c", "p", "q", "x"},
                  !.prompts["c"] = <<Null>>, !.rev["c"] = Sym("m"), !.members["c"] = <<"p", "q">>,
                  !.defs["c"] = <<If(Sym("q"), D)>>, !.prompts["d"] = <<Null>>,
                  !.prompts["p"] = <<Sym("c")>>, !.prompts["q"] = <<AND(Sym("c"), D)>>,
                  !.defs["x"] = <<If(Sym("y"), Sym("q"))>>]
OnlyIf == [Choice EXCEPT !.prompts["c"] = <<D>>, !.rev["c"] = AND(D, Sym("m")), !.prompts["q"] = <<Sym("c")>>]
TristateChoice ==
    [Plain EXCEPT !.syms = {"MODULES", "k", "t", "u"},
                  !.prompts["MODULES"] = <<Null>>, !.prompts["k"] = <<AND(Sym("MODULES"), Sym("m"))>>, !.rev["k"] = Sym("m"),
                  !.members["k"] = <<"t", "u">>, !.prompts["t"] = <<Sym("k")>>, !.prompts["u"] = <<Sym("k")>>,
                  !.defs["k"] = <<If(U, Null)>>]

\* num lies between 1 and h, which is 5 with d and 3 without it.
Bounded ==
    [Plain EXCEPT !.syms = {"d", "h", "num", "x"},
                  !.prompts["d"] = <<Null>>, !.prompts["num"] = <<Null>>, !.prompts["h"] = <<D>>,
                  !.defs["h"] = <<If(Sym("c5"), D), If(Sym("c3"), Null)>>, !.defs["num"] = <<If(Sym("h"), D)>>,
                  !.ranges["num"] = <<[lo |-> "c1", hi |-> "h", cond |-> Null]>>,
                  !.defs["x"] = <<If(Sym("y"), Comp(">", "num", "c3"))>>]

\* Any two further dependencies of a table with a choice.
Depending(t, s, e) == [t EXCEPT !.prompts[s] = @ \o <<Sym(e)>>]
Depended == {"d", "p", "q", "c"}
Named == { <<"selects", Selects>>, <<"implies", Implies>>, <<"impliesif", ImpliesIf>>,
           <<"impliescycle", ImpliesCycle>>, <<"choice", [Choice EXCEPT !.syms = @ \ {"x"}]>>, <<"onlyif", OnlyIf>>,
           <<"tristates", TristateChoice>>, <<"bounded", Bounded>> }
MCTables == [n \in {<<t[1]>> : t \in Named} \cup {"d", "p", "c"} \X {"x", "q", "c"} \X {"d", "c"} \X Depended |->
               IF Len(n) = 1 THEN (CHOOSE t \in Named : t[1] = n[1])[2]
               ELSE Depending(Depending(Choice, n[1], n[2]), n[3], n[4])]
=============================================================================
