---------------------------- MODULE KconfigMenu ----------------------------
(***************************************************************************)
(* menu_finalize of kconfig (support/kconfig/menu.c): conditions of the    *)
(* enclosing menus, ifs and choices are propagated into those of each      *)
(* symbol and simplified on the way, selects are added to the reverse      *)
(* dependencies of the selected symbol, and symbols that depend on the one *)
(* before them become its submenu.                                         *)
(*                                                                         *)
(* A behaviour opens some blocks, one inside the other, finalizes the      *)
(* symbols of the innermost one, and then builds the submenus.  What the   *)
(* Config.in files said is kept beside what kconfig makes of it.           *)
(***************************************************************************)
EXTENDS KconfigExpr

NoPrompt == [op |-> "no prompt"]
NoSelect == [op |-> "no select"]

CONSTANTS Enclosing,     \* expressions of if's and menus, by the number of blocks
          Visibles,      \* expressions after `visible if'; Null for none
          Defined,       \* symbols that the innermost block may define
          Conditions,    \* for each of them, the expressions after its `depends on',
          Prompts,       \*   the `if' of its prompt, Null for none, or NoPrompt,
          Selects,       \*   and the `if' of its `select X', Null for none, or NoSelect
          ChoiceSym,     \* the symbol of a choice, a tristate
          MaxDepth,      \* how many blocks, one in the other
          MaxEntries     \* how many symbols, by the number of blocks

VARIABLES
  outer,      \* as written: conditions that bound every symbol of the block
  shown,      \* as written: `visible if' conditions of the enclosing menus
  depth,      \* blocks opened so far
  choice,     \* whether the innermost block is a choice, or an `if' in one
  parentdep,  \* what menu_finalize propagates
  entries,    \* the symbols of the block: as written, and finalized
  selected,   \* as written: <<symbol, condition>> of every select of a symbol X
  rev_dep,    \* finalized: X's rev_dep.expr
  above       \* the submenus: the entry above each entry, 0 for none; <<>> until they are built

vars == <<outer, shown, depth, choice, parentdep, entries, selected, rev_dep, above>>

Init ==
    /\ outer = {} /\ shown = <<>> /\ depth = 0 /\ choice = FALSE /\ parentdep = Null
    /\ entries = <<>> /\ selected = {} /\ rev_dep = Null /\ above = <<>>

\* 'm' alone means 'm' if there are modules.
RECURSIVE RewriteM(_)
RewriteM(e) ==
    CASE e.op \in Logical -> Two(e.op, RewriteM(e.l), RewriteM(e.r))
      [] e.op = "not" -> Not(RewriteM(e.l))
      [] e = Sym("m") -> And(e, Sym(Modules))
      [] OTHER -> e

\* A condition below another one.
Propagate(dep, e) == EliminateDups(And(dep, Transform(RewriteM(e))))

\* As Property below, for tristates too.
PropertyAllBool(s, dep, e) == TransBool(Propagate(dep, e))

\* The condition of a property of symbol s: tristates keep theirs as it is.
Property(s, dep, e) == LET cond == Propagate(dep, e)
                       IN  IF s \in Tristates THEN cond ELSE TransBool(cond)

-----------------------------------------------------------------------------

\* Blocks are opened before their symbols.
Opening == entries = <<>> /\ above = <<>> /\ depth < MaxDepth

OpenIf(e) ==
    /\ Opening
    /\ depth' = depth + 1
    /\ outer' = outer \cup {e}
    /\ parentdep' = Propagate(parentdep, e)
    /\ UNCHANGED <<choice, shown, entries, selected, rev_dep, above>>

\* What is propagated is the condition of the menu's prompt.
OpenMenu(e, v) ==
    /\ Opening /\ ~choice
    /\ depth' = depth + 1
    /\ outer' = outer \cup {e}
    /\ shown' = IF v = Null THEN shown ELSE <<v>> \o shown
    /\ parentdep' = Propagate(Propagate(parentdep, e), Null)
    /\ UNCHANGED <<choice, entries, selected, rev_dep, above>>

\* The choice itself bounds its values.  A choice holds symbols, and if's with symbols.
OpenChoice ==
    /\ Opening /\ ~choice
    /\ depth' = depth + 1 /\ choice' = TRUE
    /\ outer' = {Sym(ChoiceSym)}
    /\ parentdep' = Sym(ChoiceSym)
    /\ UNCHANGED <<shown, entries, selected, rev_dep, above>>

\* menu_add_prop: the prompt has the visibility of the menus around it.
RECURSIVE Shown(_, _)
Shown(e, vs) == IF vs = <<>> THEN e ELSE Shown(And(e, Head(vs)), Tail(vs))
AsWritten(p) == IF p = NoPrompt THEN NoPrompt ELSE Shown(p, shown)

\* Symbol s `depends on d', with a prompt `if p' or none, and `select X if x' or no select.
Config(s, d, p, x) ==
    /\ above = <<>> /\ Len(entries) < MaxEntries[depth]
    /\ \A i \in DOMAIN entries : entries[i].sym # s
    /\ choice => p # NoPrompt
    /\ LET dep == Propagate(parentdep, d)
       IN  /\ entries' = Append(entries,
                 [sym |-> s, depends |-> d, prompt |-> AsWritten(p), dep |-> dep,
                  visible |-> IF p = NoPrompt THEN NoPrompt ELSE Property(s, dep, AsWritten(p))])
           /\ IF x = NoSelect THEN UNCHANGED <<selected, rev_dep>>
              ELSE /\ selected' = selected \cup {<<Len(entries) + 1, x>>}
                   /\ rev_dep' = Or(rev_dep, And(Sym(s), Property(s, dep, x)))
    /\ UNCHANGED <<outer, shown, depth, choice, parentdep, above>>

-----------------------------------------------------------------------------
(* The submenus.                                                             *)

\* expr_trans_compare `!= n', simplified.
Enabled(e) == EliminateDups(Transform(TransCompare(e, "!=", "n")))

\* What an entry shows under: its prompt's condition, or its dependencies.
Condition(e) == IF e.visible = NoPrompt THEN e.dep ELSE e.visible
Base(e) == Enabled(IF e.visible = NoPrompt THEN Null ELSE e.visible)

\* As Below, without a look at how e depends on f.
BelowOnMention(e, f) == ContainsSymbol(Condition(e), f.sym)

\* Are e's conditions a superset of those of f's prompt?
Superset(e, f) == EliminateEq(Enabled(Condition(e)), Base(f))[2] = Sym("y")

\* Does entry e go below entry f?
Below(e, f) ==
    /\ ContainsSymbol(Condition(e), f.sym)
    /\ DependsSymbol(Condition(e), f.sym) \/ Superset(e, f)

\* The first entry that is not below entry i.  Entries that go below are finalized
\* at once, and take away those that go below them.
RECURSIVE Skip(_, _), After(_)
Skip(i, j) == IF j > Len(entries) \/ ~Below(entries[j], entries[i]) THEN j ELSE Skip(i, After(j))
After(i) == Skip(i, i + 1)

\* The closest entry that took entry k; below a symbol without a prompt entries are
\* moved up again.
Takers(k) == {i \in 1..(k - 1) : k < After(i)}
Closest(S) == IF S = {} THEN 0 ELSE CHOOSE i \in S : \A j \in S : j <= i
Prompted(i) == entries[i].visible # NoPrompt

\* Values of a choice that are not tristate depend on the choice being y.
ChoiceValue(k, e) ==
    IF choice /\ Takers(k) = {} /\ e.sym \notin Tristates
    THEN LET chosen == Comp("=", ChoiceSym, "y")
         IN  [e EXCEPT !.dep = And(chosen, e.dep), !.visible = And(chosen, e.visible)]
    ELSE e

Submenus ==
    /\ above = <<>> /\ entries # <<>>
    /\ above' = [k \in DOMAIN entries |-> Closest({i \in Takers(k) : Prompted(i)})]
    /\ entries' = [k \in DOMAIN entries |-> ChoiceValue(k, entries[k])]
    /\ UNCHANGED <<outer, shown, depth, choice, parentdep, selected, rev_dep>>

\* A Config.in refers to symbols of other blocks or to earlier ones of its own.
Known(e) == \A s \in Defined : ContainsSymbol(e, s) => \E i \in DOMAIN entries : entries[i].sym = s

Done == above # <<>> /\ UNCHANGED vars

Next ==
    \/ \E e \in Enclosing[depth + 1] : OpenIf(e)
    \/ \E e \in Enclosing[depth + 1], v \in Visibles : OpenMenu(e, v)
    \/ OpenChoice
    \/ \E s \in Defined : \E d \in Conditions[s], p \in Prompts[s], x \in Selects[s] :
         Known(d) /\ Config(s, d, p, x)
    \/ Submenus
    \/ Done

Spec == Init /\ [][Next]_vars

-----------------------------------------------------------------------------
(* Properties.                                                               *)

\* The value of a condition as it is written.
RECURSIVE Meaning(_, _)
Meaning(e, v) ==
    CASE e.op = "and" -> Least(Meaning(e.l, v), Meaning(e.r, v))
      [] e.op = "or" -> Greatest(Meaning(e.l, v), Meaning(e.r, v))
      [] e.op = "not" -> 2 - Meaning(e.l, v)
      [] e = Sym("m") -> Least(1, SymValue(Modules, v))
      [] OTHER -> Value(e, v)

\* The least of the values of conditions.
All(conds, v) == LET values == {Meaning(e, v) : e \in conds} \cup {2}
                 IN  CHOOSE i \in values : \A j \in values : i <= j

\* What bounds entry k, as written.
Chosen(k) == IF above # <<>> /\ choice /\ above[k] = 0 /\ entries[k].sym \notin Tristates
             THEN {Comp("=", ChoiceSym, "y")} ELSE {}
Depends(k) == outer \cup {entries[k].depends} \cup Chosen(k)

\* Propagation and simplification do not change what a symbol depends on
\* (menu.c:341-352): whatever the values of the symbols, its dependencies have the
\* least of the values of the conditions written around it and at it.
DependencyKept ==
    \A k \in DOMAIN entries : \A v \in Assignments : Value(entries[k].dep, v) = All(Depends(k), v)

\* The same of prompts (menu.c:392-398): exactly for a tristate, and for a bool up
\* to m counting as y, which is what sym_calc_visibility makes of it.
VisibilityKept ==
    \A k \in DOMAIN entries : Prompted(k) => \A v \in Assignments :
      LET written == All(Depends(k) \cup {entries[k].prompt}, v)
          final == Value(entries[k].visible, v)
      IN  IF entries[k].sym \in Tristates THEN final = written ELSE (final = 0) = (written = 0)

\* A select as written: the symbol, within what bounds it and the select's condition.
SelectValue(x, v) == Least(SymValue(entries[x[1]].sym, v),
                           All(outer \cup {entries[x[1]].depends, x[2]}, v))
AllSelects(v) == LET values == {SelectValue(x, v) : x \in selected} \cup {0}
                 IN  CHOOSE i \in values : \A j \in values : j <= i

\* X is selected exactly when a symbol selects it whose conditions hold
\* (menu.c:404-408), up to m counting as y: expr_trans_bool takes FOO!=n for FOO in the
\* select of a bool too, so that X gets m where the select as written says y.
SelectKept ==
    \A v \in Assignments : rev_dep # Null => (Value(rev_dep, v) = 0) = (AllSelects(v) = 0)

\* Symbols are set only if their dependencies are met.
DependenciesMet(v) == \A k \in DOMAIN entries :
                        SymValue(entries[k].sym, v) # 0 => Value(entries[k].dep, v) # 0

\* Entry i is set, or its prompt is visible: menu_is_visible looks into its submenu.
Open(i, v) == SymValue(entries[i].sym, v) # 0 \/ Value(entries[i].visible, v) # 0

\* An entry is put below another one only if it never shows without the other one
\* being set or showing too (menu.c:446-480).  Entries moved up from below a symbol
\* without a prompt are left out, and values of a choice, whose conditions change
\* once the submenus are built.
SubmenuDepends ==
    (above # <<>> /\ ~choice) => \A k \in DOMAIN entries :
      (above[k] # 0 /\ above[k] = Closest(Takers(k))) => \A v \in Assignments :
         (DependenciesMet(v) /\ Value(Condition(entries[k]), v) # 0) => Open(above[k], v)
=============================================================================
