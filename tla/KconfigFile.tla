---------------------------- MODULE KconfigFile ----------------------------
(***************************************************************************)
(* The configuration files of kconfig (support/kconfig/confdata.c): what   *)
(* reading one does to the symbols, and what of the symbols is written to  *)
(* .config, to a defconfig and to auto.conf.                               *)
(*                                                                         *)
(* A file is a function from the names that have a line in it to their     *)
(* values; "# X is not set" is the value 0.  The lines are in the order of *)
(* the menus, at most one for a name; values are unquoted.  A name that no *)
(* table has stands for a symbol that was removed from the Config.in files.*)
(***************************************************************************)
EXTENDS KconfigSymbol

LOCAL INSTANCE SequencesExt
LOCAL INSTANCE FiniteSetsExt

CONSTANT MenuOrder   \* all names of the files, in the order of the menus

Invalid == -2        \* a text that is no value of its symbol
ValueSet(s) == CASE s \in Bools -> {0, 2} [] s \in Tristates -> 0..2 [] OTHER -> Int \ {Invalid}
LinesOf(file) == SelectSeq(MenuOrder, LAMBDA s : s \in DOMAIN file)
Optional(c) == table.rev[c] = Null
OwnChoices == table.syms \cap ChoiceSyms
InMenus == table.syms \ ChoiceSyms

-----------------------------------------------------------------------------
(* conf_read: the user's values are those of the file.                      *)

Forget(st) == [st EXCEPT !.valid = Literals, !.has = OwnChoices, !.user = Blank.user, !.upick = Blank.upick]

\* A line of a choice's member sets its choice as well: a member that is m beside
\* one that is y leaves the state of the choice open.
Warned(r, warning) == [r EXCEPT !.warned = @ \/ warning]
ChoiceLine(r, c, m, v) ==
    [Warned(r, Least(v, r.st.user[c]) # 0 /\ Greatest(v, r.st.user[c]) = 2) EXCEPT
        !.st.has = IF v = 1 /\ r.st.user[c] = 2 THEN @ \ {c} ELSE @,
        !.st.upick[c] = IF v = 2 THEN m ELSE @,
        !.st.user[c] = Greatest(@, v)]
AssignLine(r, s, v) == [r EXCEPT !.st = SetUser(@, s, v)]
ReadLine(r, s, v) ==
    CASE s \notin table.syms -> [r EXCEPT !.unknown = TRUE]
      [] v \notin ValueSet(s) -> Warned(r, TRUE)
      [] IsMember(s) -> ChoiceLine(AssignLine(r, s, v), ChoiceOf(s), s, v)
      [] OTHER -> AssignLine(r, s, v)
ReadLines(st, file) ==
    FoldLeft(LAMBDA r, s : ReadLine(r, s, file[s]),
             [st |-> Forget(st), warned |-> FALSE, unknown |-> FALSE], LinesOf(file))

\* A symbol whose line does not say what the symbol now is, or should not be there,
\* or is missing.
Disagrees(st, s) ==
    s \notin table.auto /\ IF s \in st.has THEN s \notin st.write \/ st.user[s] # st.cur[s] ELSE s \in st.write
UserOutOfRange(st, s) == s \in Ranged \cap st.has /\ ~InRange(st, Ranges(st, s), st.user[s])
OutOfRange(st) == {s \in InMenus : UserOutOfRange(st, s)}

\* The second pass: values that show nowhere are forgotten when the file agrees
\* in all, numbers beyond their range always, though what was calculated from
\* them stays.
DropHidden(st) == [st EXCEPT !.has = {s \in @ : IsMember(s) \/ st.vis[s] # 0}]
DropRanges(st) == [st EXCEPT !.has = @ \ OutOfRange(st), !.valid = @ \ OutOfRange(st)]
Reconciled(st, unsaved, changed) ==
    [DropRanges(IF unsaved THEN st ELSE DropHidden(st)) EXCEPT !.dirty = changed \/ unsaved]
Compared(st, changed) == Reconciled(st, \E s \in InMenus : Disagrees(st, s), changed)
AfterLines(r) == Compared(ShowAll(CalcModules(r.st)), r.warned \/ r.unknown)
ConfRead(st, file) == AfterLines(ReadLines(st, file))
\* Without a file all is new.
ConfReadNothing(st) == CalcModules([st EXCEPT !.dirty = TRUE])

-----------------------------------------------------------------------------
(* conf_write: the values of all symbols that are to be written.  The flag  *)
(* SYMBOL_WRITE is gone afterwards; a second conf_write calculates it anew  *)
(* only when the first one was completed.                                   *)

ToWrite(st) == ShowAll(IF st.dirty THEN st ELSE ClearAllValid(st))
\* mutant: only what the user sees is written.
EmittedVisible(st) == [s \in {s \in st.write \cap InMenus : st.vis[s] # 0} |-> st.cur[s]]
Emitted(st) == [s \in st.write \cap InMenus |-> st.cur[s]]
Flushed(st) == [st EXCEPT !.write = {}]
Saved(st) == [st EXCEPT !.dirty = FALSE]

\* sym_get_string_default: what the symbol would be had the user never set it.
ByDefault(st, s) ==
    LET ds == Applicable(st, table.defs[s])
        t == Greatest(DefaultValue(st, ds), st.rev[s])
        whole == IF t = 1 /\ (s \in Bools \/ (~IsMember(s) /\ st.mods = 0)) THEN 2 ELSE t
    IN  IF s \in Numbers THEN NumberDefault(st, ds).value ELSE Greatest(whole, st.imp[s])

\* conf_write_defconfig: the symbols that the user can change and that are not as
\* they would be by default; a choice's default member not either.
DefaultMember(st, c) == ChoiceDefault(st, c, ShownMembers(st, c))
\* mutant: the member that is on is not written, whatever the default.
ImpliedByAnyChoice(st, s) == IsMember(s) /\ ~Optional(ChoiceOf(s)) /\ s \in Bools /\ st.cur[s] = 2
ImpliedByChoice(st, s) ==
    IsMember(s) /\ ~Optional(ChoiceOf(s)) /\ s \in Bools /\ st.cur[s] = 2 /\ s = DefaultMember(st, ChoiceOf(s))
Minimal(st) == {s \in st.write \cap InMenus :
                    st.vis[s] > st.rev[s] /\ st.cur[s] # ByDefault(st, s) /\ ~ImpliedByChoice(st, s)}
Defconfig(st) == [s \in Minimal(st) |-> st.cur[s]]

\* conf_set_all_new_symbols: every symbol without a value is set to that of the
\* mode (in the mode of `defconfig', none is), then the choices are settled.
NewSymbols(st) == {s \in table.syms \cap Symbols : s \notin st.has \cup st.valid}
SetNew(st, v) == [st EXCEPT !.user = [s \in Syms |-> IF s \in NewSymbols(st) THEN v ELSE @[s]],
                            !.has = @ \cup NewSymbols(st)]
NeedChoices(st) == [st EXCEPT !.nsc = @ \cup (OwnChoices \ st.has) \cup {s \in table.syms : IsMember(s)}]
SettleChoice(st, c) == IF c \in st.has THEN st ELSE SetAllChoiceValues(Calc(st, c), c)
SettleChoices(st) == FoldSet(LAMBDA c, r : SettleChoice(r, c), st, OwnChoices)
SetAllNewSymbols(st) == SettleChoices(NeedChoices(ClearAllValid(st)))
SetAllNewTo(st, v) == SetAllNewSymbols(SetNew(st, v))

-----------------------------------------------------------------------------
(* conf_write_autoconf: auto.conf has the values that are not n; the header *)
(* of every symbol that differs from the auto.conf of before is touched.    *)
(* Symbols keep their types here: a line of auto.conf that does not fit the *)
(* type of its symbol would be dropped on reading and its header be passed  *)
(* over (confdata.c:148-151, 183-186, 900-913).                             *)

AutoLines(st) == [s \in {s \in st.write \cap InMenus : s \in Numbers \/ st.cur[s] # 0} |-> st.cur[s]]
ReadAuto(st) == CalcModules([ClearAllValid(st) EXCEPT !.valid = Literals])
\* mutant: what is no longer written is not looked at.
DiffersIfWritten(st, auto, s) ==
    s \in st.write /\ IF s \in DOMAIN auto THEN st.cur[s] # auto[s] ELSE s \in Numbers \/ st.cur[s] # 0
Differs(st, auto, s) ==
    IF s \in st.write THEN IF s \in DOMAIN auto THEN st.cur[s] # auto[s] ELSE s \in Numbers \/ st.cur[s] # 0
                      ELSE s \in DOMAIN auto
ToTouch(st, auto) == {s \in (InMenus \ table.auto) \cup DOMAIN auto : Differs(st, auto, s)}
=============================================================================
