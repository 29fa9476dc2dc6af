---------------------------- MODULE KconfigText ----------------------------
(***************************************************************************)
(* The front ends of a terminal, mconf and nconf (make menuconfig and make *)
(* nconfig): menus over menus, from which the dialogs of choices, texts,   *)
(* files and of the end are opened.  Each screen is a call of conf,        *)
(* conf_choice, conf_string, conf_load, conf_save, handle_exit or do_exit. *)
(* Every step is one key, with the screen drawn again after it, for        *)
(* drawing a menu looks at its entries.  The mode that shows all menus in  *)
(* one (MENUCONFIG_MODE) is left out.                                      *)
(***************************************************************************)
EXTENDS KconfigSession

LOCAL INSTANCE SequencesExt
LOCAL INSTANCE FiniteSetsExt

CONSTANTS Searches, \* the symbols searched for (choices have no name)
          MaxDepth  \* bound on the screens on top of one another

Screen(do, n) == [do |-> do, n |-> n]
Top == Last(ui.on)
At(do) == phase = "ui" /\ ui.prog \in {"mconf", "nconf"} /\ Top.do = do
Below == Front(ui.on)
Over(do, n) == Append(ui.on, Screen(do, n))
MainScreen == <<Screen("menu", RootMenu)>>

-----------------------------------------------------------------------------
(* build_conf: the entries that a menu lists, and their tags: 'm' a menu,    *)
(* 't' a bool, a tristate or a choice, 's' a number, ':' what cannot be       *)
(* changed.  A choice that is y stands for its member.                        *)

OnMenu(st, c) == SelectSeq(Sub(c), LAMBDA m : Shows(st, m) /\ m = st.pick[c])
Inner(st, n, top) ==
    CASE n \in ChoiceSyms /\ st.cur[n] = 2 -> SelectSeq(OnMenu(st, n), LAMBDA m : Sub(m) # <<>>)
      [] n \notin ChoiceSyms /\ IsMenu(n) /\ n # top -> <<>>
      [] OTHER -> Sub(n)
RECURSIVE Listed(_, _, _)
Listed(st, n, top) ==
    IF ui.all \/ Shows(st, n)
    THEN (IF n \in Syms \/ n # top THEN <<n>> ELSE <<>>)
         \o FlattenSeq([i \in 1..Len(Inner(st, n, top)) |-> Listed(st, Inner(st, n, top)[i], top)])
    ELSE <<>>
Tag(st, n, top) ==
    CASE n \notin Syms -> "m"
      [] n \in ChoiceSyms -> IF Changable(st, n) \/ OnMenu(st, n) # <<>> THEN "t" ELSE ":"
      [] n = top \/ (IsMember(n) /\ st.cur[n] = 2) -> ":"
      [] n \in Numbers -> "s"
      [] OTHER -> "t"

\* Everything that drawing a menu or a choice looks at.
Looks(st, top) == LET ns == {top} \cup ToSet(Listed(st, top, top))
                  IN  ns \cup UNION {ToSet(Sub(c)) : c \in ns \cap ChoiceSyms}
Drawn(st, on) == CASE on = NoScreens -> st
                   [] Last(on).do = "menu" -> LookedAt(st, Looks(st, Last(on).n))
                   [] Last(on).do = "choice" -> LookedAt(st, ToSet(Sub(Last(on).n)))
                   [] OTHER -> st
Draws(st, on) == sym' = Drawn(ShowAll(st), on)

StartText(prog) == Starts(prog, MainScreen) /\ Draws(ReadCfg, MainScreen)

\* The screens change, the values do not.
Opens(on) == /\ Len(on) <= MaxDepth
             /\ Draws(sym, on)
             /\ ui' = [ui EXCEPT !.on = on]
             /\ UNCHANGED <<table, phase, files, spent>>
Sets(r, on) == Edits(r, on) /\ Draws(AfterSet(r), on)

-----------------------------------------------------------------------------
(* conf: a key on an entry.  mconf acts on an entry that does not show, when  *)
(* all are shown; nconf does not.                                             *)

Entry(n) == At("menu") /\ n \in ToSet(Listed(sym, Top.n, Top.n)) /\ (ui.prog = "nconf" => Shows(sym, n))
Tagged(n, tag) == Entry(n) /\ Tag(sym, n, Top.n) = tag
OpensChoice(n) == n \in ChoiceSyms /\ sym.cur[n] = 2

EnterMenu(n) == Tagged(n, "m") /\ Opens(Over("menu", n))
EnterChoice(n) == Tagged(n, "t") /\ OpensChoice(n) /\ Opens(Over("choice", n))
EnterMenuconfig(n) == Tagged(n, "t") /\ ~OpensChoice(n) /\ IsMenu(n) /\ Opens(Over("menu", n))
EnterString(n) == Tagged(n, "s") /\ Opens(Over("string", n))
KeyYes(n) == Tagged(n, "t") /\ Sets(SetYes(sym, n), ui.on)
Key(n, v) == Tagged(n, "t") /\ Sets(TristateSet(sym, n, v), ui.on)
KeySpace(n) == Tagged(n, "t") /\ Sets(Toggle(sym, n), ui.on)

LeaveMenu == At("menu") /\ Len(ui.on) > 1 /\ Opens(Below)
\* show_all_options; F4 also on top of a choice.
ShowAllKey == /\ At("menu") \/ (At("choice") /\ ui.prog = "nconf")
              /\ ui' = [ui EXCEPT !.all = ~@]
              /\ UNCHANGED <<table, phase, sym, files, spent>>

\* search_conf: the entries above the one found are looked at; mconf goes to the menu
\* it is in, or to the one that the nearest of those that show is in.
RECURSIVE Ancestors(_)
Ancestors(n) == IF Above(n) = RootMenu THEN <<>> ELSE <<Above(n)>> \o Ancestors(Above(n))
Reachable(n) == SelectSeq(<<n>> \o Ancestors(n), LAMBDA a : Shows(sym, a))
Found(n) == At("menu") /\ n \in Searches \cap table.syms
SearchOnly(n) == /\ Found(n) /\ ui.prog = "nconf"
                 /\ sym' = LookedAt(sym, ToSet(Ancestors(n)))
                 /\ UNCHANGED <<table, phase, files, ui, spent>>
Jump(n) == /\ Found(n) /\ ui.prog = "mconf"
           /\ \E a \in ToSet(Ancestors(n)) : Shows(sym, a)
           /\ Len(ui.on) < MaxDepth
           /\ LET on == Over("menu", Above(Reachable(n)[1]))
              IN  /\ sym' = Drawn(LookedAt(sym, {n} \cup ToSet(Ancestors(n))), on)
                  /\ ui' = [ui EXCEPT !.on = on]
           /\ UNCHANGED <<table, phase, files, spent>>

-----------------------------------------------------------------------------
(* conf_choice and conf_string.                                               *)

Pickable == {m \in ToSet(Sub(Top.n)) : Shows(sym, m)}
PickOne(m) == /\ At("choice") /\ m \in Pickable
              /\ Sets(TristateSet(sym, m, 2), Below)
EnterText(v) == /\ At("string") /\ Outcome(sym, Top.n, v).ok
                /\ Sets(Outcome(sym, Top.n, v), Below)
Cancel == (At("choice") \/ At("string") \/ At("load") \/ At("save")) /\ Opens(Below)

-----------------------------------------------------------------------------
(* conf_load and conf_save, from a menu and in nconf from a choice.           *)

Commands == At("menu") \/ (At("choice") /\ ui.prog = "nconf")
OpenLoad == Commands /\ Opens(Over("load", Top.n))
OpenSave == Commands /\ Opens(Over("save", Top.n))
Load(f) == /\ At("load") /\ Exists(f)
           /\ Draws([LoadFrom(sym, f) EXCEPT !.dirty = TRUE], Below)
           /\ ui' = [ui EXCEPT !.on = Below, !.name = f, !.failed = ""]
           /\ Filed(files)
LoadNothing(f) == At("load") /\ LoadMissing(f)
Save(f) == /\ At("save") /\ CanWrite
           /\ ui' = [SavedUi(f) EXCEPT !.on = Below]
           /\ Filed(NewFiles(f))
SaveFails(f) == /\ At("save") /\ CannotRename
                /\ ui' = [ui EXCEPT !.failed = "save"]
                /\ Filed(files)

-----------------------------------------------------------------------------
(* handle_exit, do_exit, and an interrupt, after which mconf does not go on.  *)

AskOrEnd(on) == /\ phase' = IF sym.dirty THEN "ui" ELSE "over"
                /\ ui' = IF sym.dirty THEN [ui EXCEPT !.on = on] ELSE [ui EXCEPT !.on = NoScreens, !.said = "saved"]
                /\ UNCHANGED <<table, sym, files, spent>>
ExitMain == At("menu") /\ Len(ui.on) = 1 /\ AskOrEnd(Over("exit", RootMenu))
ExitKey == Commands /\ ui.prog = "nconf" /\ AskOrEnd(Over("exit", RootMenu))
Interrupt == phase = "ui" /\ ui.prog = "mconf" /\ Top.do # "exit" /\ AskOrEnd(<<Screen("exit", "interrupt")>>)

Stays == Top.n # "interrupt"
AnswerYes == At("exit") /\ CanWrite /\ Ends("saved") /\ FiledLast(NewFiles(ui.name))
AnswerYesFails == At("exit") /\ Ends("not saved") /\ FiledLast(files) /\ CannotWrite
AnswerNo == At("exit") /\ Ends("not saved") /\ UNCHANGED <<table, sym, files, spent>>
AnswerEsc == At("exit") /\ IF Stays THEN Opens(Below)
                           ELSE Ends("not saved") /\ UNCHANGED <<table, sym, files, spent>>

TextKeys ==
    \/ \E prog \in OfTable \cap {"mconf", "nconf"} : StartText(prog)
    \/ \E n \in Entries : \/ EnterMenu(n) \/ EnterChoice(n) \/ EnterMenuconfig(n) \/ EnterString(n)
                          \/ KeyYes(n) \/ KeySpace(n) \/ PickOne(n)
                          \/ SearchOnly(n) \/ Jump(n)
    \/ \E n \in Entries, v \in {0, 1} : Key(n, v)
    \/ \E v \in Entered : EnterText(v)
    \/ LeaveMenu \/ ShowAllKey \/ Cancel \/ OpenLoad \/ OpenSave
    \/ \E f \in Names : Load(f) \/ LoadNothing(f) \/ Save(f) \/ SaveFails(f)
    \/ ExitMain \/ ExitKey \/ Interrupt
    \/ AnswerYes \/ AnswerYesFails \/ AnswerNo \/ AnswerEsc
=============================================================================
