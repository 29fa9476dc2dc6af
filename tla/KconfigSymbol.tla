--------------------------- MODULE KconfigSymbol ---------------------------
(***************************************************************************)
(* Symbol values of kconfig (support/kconfig/symbol.c): the calculation of *)
(* a symbol on demand from the symbols it mentions, the cache that the     *)
(* SYMBOL_VALID flag keeps of it, the values that a user may set, and the  *)
(* check for recursive dependencies that follows the parser.               *)
(*                                                                         *)
(* A table is what menu_finalize leaves of the Config.in files: for each   *)
(* symbol its prompts, defaults and ranges with their conditions, its      *)
(* dependencies, what selects and what implies it, the conditions on which *)
(* it implies others, and for a choice its members.  The value of a bool   *)
(* or tristate is 0..2, that of a number (or of a string, one number per   *)
(* text) an integer, Empty when it has none.                               *)
(* SYMBOL_CHANGED, which only redraws windows, is left out.                *)
(***************************************************************************)
EXTENDS KconfigExpr

LOCAL INSTANCE SequencesExt
LOCAL INSTANCE FiniteSetsExt

CONSTANTS Numbers,      \* the symbols of type int, hex or string
          Literals,     \* the constants among the numbers, with
          LiteralValue, \* their values
          Ranged,       \* the numbers that are int or hex: a range applies
          ChoiceSyms,      \* the choices, each a bool or a tristate
          Tables,       \* the tables that the parser may deliver, by name
          NumberInputs  \* what a user may enter for a number

Syms == Symbols \cup Numbers
Empty == -1
None == "none"

VARIABLES table,    \* the table in memory
          phase,    \* "parsed", "cyclic" or "session"
          sym       \* the symbols' calculated and user values and flags

symVars == <<table, phase, sym>>
FromTables == \E t \in DOMAIN Tables : table = Tables[t]

ChoiceOf(s) == IF \E c \in ChoiceSyms : Contains(table.members[c], s)
               THEN CHOOSE c \in ChoiceSyms : Contains(table.members[c], s) ELSE None
IsMember(s) == ChoiceOf(s) # None

RECURSIVE Mentions(_)
Mentions(e) == CASE e.op = "null" -> {}
                 [] e.op = "sym" -> {e.s} \ Consts
                 [] e.op = "not" -> Mentions(e.l)
                 [] e.op \in Logical -> Mentions(e.l) \cup Mentions(e.r)
                 [] OTHER -> {e.s, e.t} \ Consts
AllMentions(es) == UNION {Mentions(e) : e \in es}

\* What the visibility and what the value of a symbol is calculated from.
Limits(s) == ToSet(table.prompts[s]) \cup {table.dir[s], table.rev[s], table.imp[s]}
Sources(s) ==
    LET defs == ToSet(table.defs[s])
        ranges == ToSet(table.ranges[s])
    IN  {d.cond : d \in defs} \cup {r.cond : r \in ranges} \cup {Sym(r.lo) : r \in ranges}
        \cup {Sym(r.hi) : r \in ranges} \cup IF s \in ChoiceSyms THEN {} ELSE {d.val : d \in defs}

\* sym_get_default_prop, sym_get_range_prop: the first whose condition holds, if any.
Applicable(st, props) == SelectSeq(props, LAMBDA p : Value(p.cond, st.cur) # 0)

\* sym_get_type: a tristate is a bool without modules and in a choice that is y.
IsTristate(st, s) == s \in Tristates /\ ~(IsMember(s) /\ st.vis[s] = 2) /\ st.mods # 0

\* strtoll of a value: nothing reads as 0.
Parsed(v) == IF v = Empty THEN 0 ELSE v

\* sym_validate_range: above or below the range, the bound.
Within(v, lo, hi) == Parsed(v) >= Parsed(lo) /\ Parsed(v) <= Parsed(hi)
InRange(st, rs, v) == rs = <<>> \/ Within(v, st.cur[rs[1].lo], st.cur[rs[1].hi])
Clipped(v, lo, hi) == IF Parsed(v) < Parsed(lo) THEN Parsed(lo) ELSE Parsed(hi)
Ranges(st, s) == IF s \in Ranged THEN Applicable(st, table.ranges[s]) ELSE <<>>
ClipTo(st, s, rs) == IF InRange(st, rs, st.cur[s]) THEN st
                     ELSE [st EXCEPT !.cur[s] = Clipped(@, st.cur[rs[1].lo], st.cur[rs[1].hi])]
ValidateRange(st, s) == ClipTo(st, s, Ranges(st, s))

-----------------------------------------------------------------------------
(* sym_calc_value.  The symbols that a condition mentions are calculated    *)
(* before it is evaluated; the conditions of one symbol all at once.        *)

RECURSIVE Calc(_, _), CalcAll(_, _)
Pick(S) == CHOOSE s \in S : TRUE
CalcNext(st, S, s) == CalcAll(Calc(st, s), S \ {s})
CalcAll(st, S) == IF S \subseteq st.valid THEN st ELSE CalcNext(st, S, Pick(S \ st.valid))

\* sym_calc_visibility: of the prompts of a tristate member one that is m is not
\* shown in a choice that is y; in all, m is y for what cannot be m.
PromptValue(st, s, t) == IF s \in Tristates /\ IsMember(s) /\ t = 1 /\ st.cur[ChoiceOf(s)] = 2 THEN 0 ELSE t
Prompted(st, s) == FoldLeft(LAMBDA t, e : Greatest(t, PromptValue(st, s, Value(e, st.cur))), 0, table.prompts[s])
Visible(st, s, t) == [st EXCEPT !.vis[s] = IF t = 1 /\ (s \notin Tristates \/ st.mods = 0) THEN 2 ELSE t]
Rounded(st, s, t) == IF t = 1 /\ ~IsTristate(st, s) THEN 2 ELSE t
Reversed(st, s, e) == IF e = Null THEN 0 ELSE Rounded(st, s, Value(e, st.cur))
Dependent(st, s, dir) == [st EXCEPT !.dir[s] = dir,
                                    !.rev[s] = Reversed(st, s, table.rev[s]),
                                    !.imp[s] = IF dir # 0 THEN Reversed(st, s, table.imp[s]) ELSE 0]
Dependencies(st, s) == IF IsMember(s) THEN st ELSE Dependent(st, s, Rounded(st, s, Value(table.dir[s], st.cur)))
SetVisibility(st, s) == Dependencies(Visible(st, s, Prompted(st, s)), s)
Visibility(st, s) == SetVisibility(CalcAll(st, AllMentions(Limits(s))), s)

\* sym_calc_choice and sym_choice_default: the member that is on.  A choice is
\* new again when a member that the user has not seen becomes visible.
FirstOf(ms) == IF ms = <<>> THEN None ELSE ms[1]
ShownMembers(st, c) == SelectSeq(table.members[c], LAMBDA m : st.vis[m] # 0)
ChoiceDefault(st, c, shown) ==
    FirstOf(SelectSeq([i \in 1..Len(table.defs[c]) |->
                         IF Value(table.defs[c][i].cond, st.cur) # 0 THEN table.defs[c][i].val.s ELSE None],
                      LAMBDA m : Contains(shown, m)) \o shown)
\* mutant: the user's member even when it is not visible.
OnUserMember(st, c, shown) == IF st.upick[c] # None THEN st.upick[c] ELSE ChoiceDefault(st, c, shown)
OnMember(st, c, shown) == IF Contains(shown, st.upick[c]) THEN st.upick[c] ELSE ChoiceDefault(st, c, shown)
SetChoice(st, c, shown, m) == [st EXCEPT !.has = IF ToSet(shown) \subseteq @ THEN @ ELSE @ \ {c},
                                         !.pick[c] = m, !.cur[c] = IF m = None THEN 0 ELSE @]
Choose(st, c, shown) == SetChoice(st, c, shown, OnMember(st, c, shown))
ChooseShown(st, c) == Choose(st, c, ShownMembers(st, c))
CalcChoice(st, c) == ChooseShown(FoldLeft(Visibility, st, table.members[c]), c)

\* The value of a bool or a tristate and whether it is written without being visible.
DefaultValue(st, ds) == IF ds = <<>> THEN 0 ELSE Least(Value(ds[1].val, st.cur), Value(ds[1].cond, st.cur))
Promoted(st, s, t) == IF t = 1 /\ (~IsTristate(st, s) \/ st.imp[s] = 2) THEN 2 ELSE t
UserTristate(st, s) == [value |-> Promoted(st, s, Greatest(Least(st.user[s], st.vis[s]), st.rev[s])), write |-> FALSE]
OwnTristate(st, s, default, implied) ==
    [value |-> Promoted(st, s, Greatest(Greatest(default, implied), st.rev[s])),
     write |-> st.rev[s] # 0 \/ default # 0 \/ implied # 0]
UsesUser(st, s) == st.vis[s] # 0 /\ s \in st.has
TristateValue(st, s) ==
    IF IsMember(s) /\ st.vis[s] = 2 THEN [value |-> IF st.pick[ChoiceOf(s)] = s THEN 2 ELSE 0, write |-> FALSE]
    ELSE IF UsesUser(st, s) THEN UserTristate(st, s)
    ELSE IF s \in ChoiceSyms THEN OwnTristate(st, s, 0, 0)
    ELSE OwnTristate(st, s, DefaultValue(st, Applicable(st, table.defs[s])), st.imp[s])

NumberDefault(st, ds) == IF ds = <<>> THEN [value |-> Empty, write |-> FALSE]
                         ELSE [value |-> st.cur[ds[1].val.s], write |-> TRUE]
NumberValue(st, s) == IF UsesUser(st, s) THEN [value |-> st.user[s], write |-> FALSE]
                      ELSE NumberDefault(st, Applicable(st, table.defs[s]))

\* set_all_choice_values: what the configuration file left open in a choice is n.
SetAllChoiceValues(st, c) ==
    [st EXCEPT !.user = [s \in Syms |-> IF Contains(table.members[c], s) /\ s \notin st.has THEN 0 ELSE @[s]],
               !.has = @ \cup {c}, !.valid = @ \ {c}, !.nsc = @ \ {c}]

\* The writing of a choice extends to its visible members; a choice itself and a
\* symbol taken from the environment are never written.
Written(st, s, write) ==
    CASE ~write -> st
      [] s \in ChoiceSyms -> [st EXCEPT !.write = @ \cup ToSet(ShownMembers(st, s))]
      [] OTHER -> [st EXCEPT !.write = @ \cup ({s} \ table.auto)]

SetPick(st, s, t) == IF s \notin ChoiceSyms THEN st
                     ELSE IF t = 2 THEN CalcChoice(st, s) ELSE [st EXCEPT !.pick[s] = None]
SetModules(st, s) == IF s = Modules THEN [st EXCEPT !.mods = st.cur[s]] ELSE st
Finish(st, s, write) ==
    IF s \in st.nsc THEN SetAllChoiceValues(Written(st, s, write \/ st.vis[s] # 0), s)
    ELSE Written(st, s, write \/ st.vis[s] # 0)
\* mutant: the calculated value replaces what the user had set.
StoreAsUser(st, s, new) ==
    Finish(SetModules(SetPick([st EXCEPT !.cur[s] = new.value, !.user[s] = new.value], s, new.value), s), s, new.write)
Store(st, s, new) ==
    Finish(SetModules(ValidateRange(SetPick([st EXCEPT !.cur[s] = new.value], s, new.value), s), s), s, new.write)
Evaluate(st, s) == Store(st, s, IF s \in Numbers THEN NumberValue(st, s) ELSE TristateValue(st, s))
Begin(st, s) == [st EXCEPT !.valid = @ \cup {s}, !.write = @ \ {s}]
Calculated(st, s) == Evaluate(CalcAll(Visibility(Begin(st, s), s), AllMentions(Sources(s))), s)

\* A member of a choice that the configuration file settled has its choice calculated first.
ChoiceFirst(st, s) == IF IsMember(s) /\ s \in st.nsc THEN Calc([st EXCEPT !.nsc = @ \ {s}], ChoiceOf(s)) ELSE st
Calc(st, s) == IF s \in st.valid THEN st ELSE Calculated(ChoiceFirst(st, s), s)

\* sym_clear_all_valid.
CalcModules(st) == CalcAll(st, {Modules} \ Consts)
Cleared(st) == [st EXCEPT !.valid = Literals, !.dirty = TRUE]
\* mutant: nothing is cleared.
ClearNothing(st) == [st EXCEPT !.dirty = TRUE]
ClearAllValid(st) == CalcModules(Cleared(st))

-----------------------------------------------------------------------------
(* What a user sets.                                                        *)

\* mutant: below what the symbol is selected to.
WithinVisible(st, s, v) ==
    /\ s \in Symbols /\ st.vis[s] > st.rev[s]
    /\ v = 1 => IsTristate(st, s) /\ st.imp[s] # 2
    /\ IF IsMember(s) /\ st.vis[s] = 2 THEN v = 2 ELSE v <= st.vis[s]

\* sym_tristate_within_range.
WithinRange(st, s, v) ==
    /\ s \in Symbols /\ st.vis[s] > st.rev[s]
    /\ v = 1 => IsTristate(st, s) /\ st.imp[s] # 2
    /\ IF IsMember(s) /\ st.vis[s] = 2 THEN v = 2 ELSE v >= st.rev[s] /\ v <= st.vis[s]

Refused(st) == [ok |-> FALSE, clear |-> FALSE, st |-> st]
Accepted(st, clear) == [ok |-> TRUE, clear |-> clear, st |-> st]

\* sym_set_tristate_value.  A member set to y also resets the new flag of its
\* choice and of the visible members.
SetUser(st, s, v) == [st EXCEPT !.has = @ \cup {s}, !.user[s] = v]
\* mutant: only the choice itself is no longer new.
SetMemberAlone(st, s, c) == [st EXCEPT !.upick[c] = s, !.has = @ \cup {c}]
SetMember(st, s, c) == [st EXCEPT !.upick[c] = s, !.has = @ \cup {c} \cup ToSet(ShownMembers(st, c))]
Marked(st, s, v) == IF v = 2 /\ IsMember(s) THEN SetMember(SetUser(st, s, v), s, ChoiceOf(s)) ELSE SetUser(st, s, v)
TristateSet(st, s, v) == IF st.cur[s] # v /\ ~WithinRange(st, s, v) THEN Refused(st)
                         ELSE Accepted(Marked(st, s, v), st.cur[s] # v)

\* sym_toggle_tristate_value: the next value that is accepted, its own in the end.
Takes(st, s, v) == st.cur[s] = v \/ WithinRange(st, s, v)
Toggled(st, s, i) == CHOOSE v \in 0..2 :
    LET From(k) == (i + k) % 3
    IN  \E k \in 1..3 : v = From(k) /\ Takes(st, s, v) /\ \A j \in 1..k-1 : ~Takes(st, s, From(j))

\* sym_set_string_value of a number, with sym_string_within_range: a value that is
\* remembered already clears nothing.
NumberSet(st, s, v) == IF ~InRange(st, Ranges(st, s), v) THEN Refused(st)
                       ELSE Accepted(SetUser(st, s, v), st.user[s] # v)

Outcome(st, s, v) == IF s \in Numbers THEN NumberSet(CalcAll(st, AllMentions(Sources(s))), s, v)
                     ELSE TristateSet(st, s, v)
AfterSet(r) == IF r.clear THEN ClearAllValid(r.st) ELSE r.st

-----------------------------------------------------------------------------
(* sym_check_deps: a depth-first walk over what a symbol is calculated from, *)
(* a choice and its members as one group.  It follows neither what implies a *)
(* symbol nor the bounds of its ranges, but it does follow the conditions on  *)
(* which the symbol implies others.  k holds the flags SYMBOL_CHECK and       *)
(* SYMBOL_CHECKED, whether a cycle was printed, and the symbol returned.      *)

CheckedSources(s) ==
    {table.rev[s]} \cup ToSet(table.prompts[s]) \cup ToSet(table.implies[s])
      \cup {d.cond : d \in ToSet(table.defs[s])}
      \cup {r.cond : r \in ToSet(table.ranges[s])}
      \cup IF s \in ChoiceSyms THEN {} ELSE {d.val : d \in ToSet(table.defs[s])}
DependsOn(s) == AllMentions(CheckedSources(s)) \ Literals

RECURSIVE CheckDeps(_, _)
UnlessFound(k, s, Check(_, _)) == IF k.found # None THEN k ELSE Check(k, s)

CheckSymDeps(k, s) == FoldSet(LAMBDA d, r : UnlessFound(r, d, CheckDeps), k, DependsOn(s))

Group(c) == ToSet(table.members[c]) \cup {c}
Unmark(k, S) == [k EXCEPT !.check = @ \ S]
Mark(k, S) == [k EXCEPT !.check = @ \cup S, !.checked = @ \cup S]
CheckMembers(k, c) == FoldLeft(LAMBDA r, m : UnlessFound(r, m, CheckSymDeps), k, table.members[c])
Returning(k, S, s) == [k EXCEPT !.found = IF @ \in S THEN s ELSE @]
CheckChoiceDeps(k, c) ==
    Returning(Unmark(CheckMembers(Unmark(CheckSymDeps(Mark(k, Group(c)), c), {c}), c), Group(c)), Group(c), c)

\* mutant: SYMBOL_CHECKED is looked at first.
CheckDepsOnce(k, s) ==
    IF s \in k.checked THEN k
    ELSE Returning(CASE IsMember(s) -> CheckDeps(k, ChoiceOf(s))
                     [] s \in ChoiceSyms -> CheckChoiceDeps(k, s)
                     [] OTHER -> Unmark(CheckSymDeps(Mark(k, {s}), s), {s}), {s}, None)

CheckDeps(k, s) ==
    CASE s \in k.check -> [k EXCEPT !.printed = TRUE, !.found = s]
      [] s \in k.checked \ k.check -> k
      [] OTHER -> Returning(CASE IsMember(s) -> CheckDeps(k, ChoiceOf(s))
                              [] s \in ChoiceSyms -> CheckChoiceDeps(k, s)
                              [] OTHER -> Unmark(CheckSymDeps(Mark(k, {s}), s), {s}), {s}, None)

\* The loop of conf_parse over all symbols: errors counts those that return a symbol.
CountError(k) == [k EXCEPT !.errors = IF k.found # None THEN @ + 1 ELSE @]
CheckAll ==
    FoldSet(LAMBDA s, k : CountError(CheckDeps([k EXCEPT !.found = None], s)),
            [check |-> {}, checked |-> {}, printed |-> FALSE, found |-> None, errors |-> 0],
            table.syms)

-----------------------------------------------------------------------------

\* A symbol before anything is known of it (memset in sym_lookup).
Blank == [ cur |-> [s \in Syms |-> IF s \in Literals THEN LiteralValue[s] ELSE IF s \in Numbers THEN Empty ELSE 0],
           user |-> [s \in Syms |-> IF s \in Numbers THEN Empty ELSE 0],
           vis |-> [s \in Syms |-> 0], dir |-> [s \in Syms |-> 0],
           rev |-> [s \in Syms |-> 0], imp |-> [s \in Syms |-> 0],
           pick |-> [c \in ChoiceSyms |-> None], upick |-> [c \in ChoiceSyms |-> None],
           valid |-> Literals, write |-> {}, has |-> {}, nsc |-> {}, mods |-> 0, dirty |-> TRUE ]

Init == FromTables /\ phase = "parsed" /\ sym = Blank

\* conf_parse after menu_finalize, and conf_read without a file.  The walk prints a cycle but never counts it as
\* an error: kconfig goes on with values that depend on the order in which it asks
\* for them, and the model ends there.
AfterCheck(k) == IF k.errors > 0 THEN "exit" ELSE IF k.printed THEN "cyclic" ELSE "session"
CheckTable ==
    /\ phase = "parsed"
    /\ phase' = AfterCheck(CheckAll)
    /\ sym' = CalcModules(sym)
    /\ UNCHANGED table

\* A front end asks for a value, and sets a symbol that it shows as visible.
CalcValue(s) == /\ phase = "session" /\ s \in table.syms \ sym.valid
                /\ sym' = Calc(sym, s)
                /\ UNCHANGED <<table, phase>>

Shown(s) == s \in table.syms \cap sym.valid /\ sym.vis[s] # 0
Inputs(s) == IF s \in Numbers THEN NumberInputs ELSE 0..2
SetValue(s, v) == /\ phase = "session" /\ Shown(s)
                  /\ sym' = AfterSet(Outcome(sym, s, v))
                  /\ UNCHANGED <<table, phase>>

Stop == phase = "cyclic" /\ UNCHANGED symVars

Next == \/ CheckTable \/ Stop
        \/ \E s \in Syms : CalcValue(s)
        \/ \E s \in Syms : \E v \in Inputs(s) : SetValue(s, v)

Spec == Init /\ [][Next]_symVars

-----------------------------------------------------------------------------
(* Properties.                                                              *)

Answers == {None} \cup Syms

\* A choice and its members are one node; a member that mentions its choice, as
\* every member does, makes no edge.
Node(s) == IF IsMember(s) THEN ChoiceOf(s) ELSE s
Edges == {<<Node(e[1]), Node(e[2])>> :
            e \in {e \in UNION {{s} \X DependsOn(s) : s \in table.syms} : e[2] # ChoiceOf(e[1])}}
RECURSIVE Reach(_, _)
Reach(S, edges) == LET more == S \cup {e[2] : e \in {e \in edges : e[1] \in S}}
                   IN  IF more = S THEN S ELSE Reach(more, edges)
Cyclic == \E e \in Edges : e[1] \in Reach({e[2]}, Edges)

\* A table in which a symbol, or a choice with its members, depends on itself is
\* reported, whatever has been marked as checked on the way, and no other is
\* (sym_check_deps).  A symbol depends on what its value is calculated from, but
\* for what implies it and the bounds of its ranges, and on the conditions of its
\* own implies, which its value is not calculated from (symbol.c:1249-1267).
CyclesReported == phase = "parsed" => CheckAll.printed = Cyclic

\* What a calculation from nothing gives.
Forgotten(st) == [st EXCEPT !.valid = Literals]
Recalculated(st) == CalcAll(CalcModules(Forgotten(st)), table.syms)

\* "The SYMBOL_VALID bit is set in 'flags' when this is up to date" (expr.h): a
\* value that is marked as valid is the one that a calculation from nothing gives,
\* in whatever order the symbols have been asked for and set.
AgreesWith(st) == \A s \in sym.valid : sym.cur[s] = st.cur[s]
CacheIsFresh == phase = "session" => AgreesWith(Recalculated(sym))

\* When all is calculated,
AllShown == phase = "session" /\ table.syms \subseteq sym.valid
\* whatever the user has set: of a choice that is y one visible member is y and no
\* other; of one that is m no member is y; of one that is n none is on.
ChoiceHasOne ==
    AllShown => \A c \in ChoiceSyms :
        LET on == {m \in ToSet(table.members[c]) : sym.cur[m] = 2}
        IN  CASE sym.cur[c] = 2 -> \E m \in on : on = {m} /\ sym.vis[m] # 0 /\ sym.pick[c] = m
              [] sym.cur[c] = 1 -> on = {}
              [] sym.cur[c] = 0 -> \A m \in ToSet(table.members[c]) : sym.cur[m] = 0

\* A value that the program accepts from the user is the value of the symbol from
\* then on, through the recalculation of everything it depends on.
Reads(st, s, v) == Calc(st, s).cur[s] = v
Sticks(r, s, v) == r.ok => Reads(AfterSet(r), s, v)
SetSticks == phase = "session" => \A s \in table.syms : Shown(s) => \A v \in Inputs(s) : Sticks(Outcome(sym, s, v), s, v)

\* A user who sets a symbol and then sets it back has the configuration of before:
\* what other symbols had been set to is remembered while they are out of reach.
ShowAll(st) == CalcAll(st, table.syms)
Restores(r) == r.ok => ShowAll(AfterSet(r)).cur = sym.cur
ThenBack(s, r) == r.ok => Restores(Outcome(ShowAll(AfterSet(r)), s, sym.cur[s]))
SetBackRestores ==
    AllShown => \A s \in table.syms \cap Symbols, v \in 0..2 :
                    Shown(s) /\ v # sym.cur[s] => ThenBack(s, Outcome(sym, s, v))
=============================================================================
