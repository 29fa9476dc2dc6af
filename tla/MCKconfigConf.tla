--------------------------- MODULE MCKconfigConf ---------------------------
(***************************************************************************)
(* Two versions of a table: a choice of p and q in a menu, where q needs d; *)
(* the first one has a number with a range, the second one an option x     *)
(* instead, which q selects and below which y is asked for.  A third table   *)
(* has modules and a choice that may be m.                                 *)
(***************************************************************************)
EXTENDS KconfigConf

MCLiteralValue == [c1 |-> 1, c3 |-> 3, c5 |-> 5]
MCMenuOrder == <<"MODULES", "d", "c", "p", "q", "num", "x", "z", "t", "ct", "u", "gone">>

If(v, e) == [val |-> v, cond |-> e]
Everywhere(x) == [s \in Syms |-> x]
Plain == [ prompts |-> Everywhere(<<>>), dir |-> Everywhere(Null), rev |-> Everywhere(Null),
           imp |-> Everywhere(Null), implies |-> Everywhere(<<>>), defs |-> Everywhere(<<>>), ranges |-> Everywhere(<<>>),
           members |-> [c \in ChoiceSyms |-> <<>>], auto |-> {}, syms |-> {},
           sub |-> [n \in Nodes |-> <<>>], cond |-> [n \in Nodes \ Syms |-> Null] ]
D == Sym("d")

Before ==
    [Plain EXCEPT !.syms = {"d", "c", "p", "q", "num"},
                  !.prompts["d"] = <<Null>>,
                  !.prompts["c"] = <<Null>>, !.rev["c"] = Sym("m"), !.members["c"] = <<"p", "q">>,
                  !.prompts["p"] = <<Sym("c")>>, !.prompts["q"] = <<Two("and", Sym("c"), D)>>,
                  !.defs["c"] = <<If(Sym("q"), D)>>,
                  !.prompts["num"] = <<D>>, !.defs["num"] = <<If(Sym("c3"), D)>>,
                  !.ranges["num"] = <<[lo |-> "c1", hi |-> "c5", cond |-> Null]>>,
                  !.sub["root"] = <<"d", "menu">>, !.sub["menu"] = <<"c">>, !.sub["c"] = <<"p", "q">>,
                  !.sub["d"] = <<"num">>]
After ==
    [Before EXCEPT !.syms = {"d", "c", "p", "q", "x", "z"},
                   !.prompts["x"] = <<D>>, !.rev["x"] = Sym("p"), !.defs["x"] = <<If(Sym("y"), D)>>,
                   !.prompts["z"] = <<Sym("x")>>, !.dir["z"] = Sym("x"), !.defs["z"] = <<If(Sym("y"), Sym("q"))>>,
                   !.sub["d"] = <<>>, !.sub["menu"] = <<"c", "x">>, !.sub["x"] = <<"z">>]
Modular ==
    [Plain EXCEPT !.syms = {"MODULES", "d", "t", "x", "ct", "u"},
                  !.prompts["MODULES"] = <<Null>>, !.prompts["d"] = <<Null>>,
                  !.prompts["t"] = <<D>>, !.imp["t"] = Two("and", D, Sym("MODULES")), !.prompts["x"] = <<Sym("t")>>,
                  !.rev["x"] = Two("and", Sym("t"), Sym("m")), !.defs["t"] = <<If(Sym("m"), D)>>,
                  !.prompts["ct"] = <<Null>>, !.rev["ct"] = Sym("m"), !.members["ct"] = <<"u">>, !.prompts["u"] = <<Sym("ct")>>,
                  !.sub["root"] = <<"MODULES", "d", "x", "ct">>, !.sub["ct"] = <<"u">>, !.sub["d"] = <<"t">>]
MCTables == [before |-> Before, after |-> After, modular |-> Modular]


\* What is calculated from a number.
Calculating == [before |-> [Before EXCEPT !.syms = @ \cup {"x"}, !.defs["x"] = <<If(Sym("y"), Comp(">", "num", "c3"))>>]]

MCFirstFiles == { <<>>, [cfg |-> [d |-> 2, q |-> 2, num |-> 9, gone |-> 2, x |-> 1]], [def |-> [q |-> 2, x |-> 0]] }
=============================================================================
