------------------------------ MODULE MCBoard ------------------------------
EXTENDS Board

P(n) == [kind |-> "patch", name |-> n]
\* A package with an archive of two patches and a readme, before which it may have
\* patches of its own; and the global directory.
MCDirs == {"pkg", "archive", "global"}
Layout(own, global) ==
    [pkg |-> own \o <<[kind |-> "dir", name |-> "archive"]>>,
     archive |-> <<P("a"), [kind |-> "other", name |-> "readme"], P("b")>>,
     global |-> global]
\* Another patch; one of the same name as in the archive; two of which the second
\* name, as a regular expression, finds the first; and one whose name does not find it,
\* before one that is not there.
MCLayouts ==
    {Layout(<<>>, <<P("c")>>), Layout(<<P("d")>>, <<P("b")>>), Layout(<<>>, <<P("f-g"), P("f.g")>>),
     Layout(<<P("d")>>, <<P("h++"), [kind |-> "gone", name |-> "e"]>>)}
MCMatches ==
    LET Itself(n) == {<<n, [dir |-> d, name |-> n]>> : d \in MCDirs}
    IN  UNION {Itself(n) : n \in {"a", "b", "c", "d", "f-g", "f.g"}} \cup {<<"f.g", [dir |-> "global", name |-> "f-g"]>>}
MCCalls == <<"pkg", "global">>
=============================================================================
