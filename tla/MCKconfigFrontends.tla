--------------------------- MODULE MCKconfigFrontends ---------------------------
EXTENDS KconfigFrontends

MCLiteralValue == [c1 |-> 1, c3 |-> 3, c5 |-> 5]
MCMenuOrder == <<"d", "x", "z", "c", "p", "q", "num">>
Cond(v, e) == [val |-> v, cond |-> e]
Everywhere(v) == [s \in Syms |-> v]
D == Sym("d")
\* The menu d with x below, and z below x; a menu with a choice of p, which selects x,
\* and q, which needs d and has a number below.
Small ==
    [ syms |-> {"d", "num", "c", "p", "z", "q", "x"}, auto |-> {},
      prompts |-> [Everywhere(<<>>) EXCEPT !["d"] = <<Null>>, !["num"] = <<Sym("q")>>, !["c"] = <<Null>>,
                                           !["p"] = <<Sym("c")>>, !["q"] = <<Two("and", Sym("c"), D)>>,
                                           !["z"] = <<Sym("x")>>, !["x"] = <<D>>],
      dir |-> [Everywhere(Null) EXCEPT !["z"] = Sym("x"), !["x"] = Null],
      rev |-> [Everywhere(Null) EXCEPT !["c"] = Sym("m"), !["x"] = Sym("p")],
      imp |-> Everywhere(Null),
      defs |-> [Everywhere(<<>>) EXCEPT !["c"] = <<Cond(Sym("q"), D)>>, !["num"] = <<Cond(Sym("c3"), Sym("q"))>>,
                                        !["z"] = <<Cond(Sym("y"), Null)>>],
      implies |-> Everywhere(<<>>),
      ranges |-> [Everywhere(<<>>) EXCEPT !["num"] = <<[lo |-> "c1", hi |-> "c5", cond |-> Null]>>],
      members |-> [c |-> <<"p", "q">>],
      sub |-> [n \in Nodes |-> CASE n = "root" -> <<"d", "menu">> [] n = "d" -> <<"x">> [] n = "menu" -> <<"c">>
                                 [] n = "c" -> <<"p", "q">> [] n = "x" -> <<"z">> [] n = "q" -> <<"num">> [] OTHER -> <<>>],
      cond |-> [n \in Nodes \ Syms |-> Null] ]
\* For the windows.  The menu d with x and z, of which one shows and the other does
\* not; a menu with q that has a number below.
Rows ==
    [ syms |-> {"d", "num", "z", "q", "x"}, auto |-> {},
      prompts |-> [Everywhere(<<>>) EXCEPT !["d"] = <<Null>>, !["num"] = <<Sym("q")>>, !["q"] = <<Null>>,
                                           !["x"] = <<Two("and", D, Not(Sym("q")))>>,
                                           !["z"] = <<Two("and", D, Sym("q"))>>],
      dir |-> Everywhere(Null), rev |-> Everywhere(Null), imp |-> Everywhere(Null),
      defs |-> [Everywhere(<<>>) EXCEPT !["num"] = <<Cond(Sym("c3"), Sym("q"))>>, !["z"] = <<Cond(Sym("y"), Null)>>],
      implies |-> Everywhere(<<>>),
      ranges |-> [Everywhere(<<>>) EXCEPT !["num"] = <<[lo |-> "c1", hi |-> "c5", cond |-> Null]>>],
      members |-> [c |-> <<>>],
      sub |-> [n \in Nodes |-> CASE n = "root" -> <<"d", "menu">> [] n = "d" -> <<"x", "z">> [] n = "menu" -> <<"q">>
                                 [] n = "q" -> <<"num">> [] OTHER -> <<>>],
      cond |-> [n \in Nodes \ Syms |-> Null] ]
MCTables == [small |-> Small, rows |-> Rows]
MCPrograms == [small |-> {"mconf", "nconf"}, rows |-> {"gconf", "qconf"}]
MCFirstFiles == { [cfg |-> [d |-> 2, q |-> 2, num |-> 4, x |-> 2, z |-> 0], alt |-> [x |-> 2, z |-> 2, p |-> 2]] }
=============================================================================
