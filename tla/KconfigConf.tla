---------------------------- MODULE KconfigConf ----------------------------
(***************************************************************************)
(* The program conf (support/kconfig/conf.c): make config, oldconfig,      *)
(* olddefconfig, defconfig, savedefconfig, allnoconfig, allyesconfig and   *)
(* the syncconfig of every build.  It reads the configuration, asks the    *)
(* user as it walks through the menus, and writes the files, one renaming  *)
(* after another.  It may be killed in between, and the Config.in files    *)
(* may be others the next time.                                            *)
(*                                                                         *)
(* The walk is that of the functions conf and check_conf, which call each  *)
(* other: what they still have to do is a list of calls.                   *)
(***************************************************************************)
EXTENDS KconfigView

LOCAL INSTANCE SequencesExt
LOCAL INSTANCE FiniteSetsExt

CONSTANTS Jobs,        \* the modes in which conf is run
          FirstFiles,  \* the files that may be there at first
          MaxRuns, MaxKills, MaxUpgrades \* bounds

VARIABLES proc,     \* the running conf: its mode, its calls, and what it will write
          touched,  \* headers touched since auto.conf was replaced
          spent     \* runs, kills and upgrades so far

vars == <<table, phase, sym, files, proc, touched, spent>>

Moved(f, g) == [h \in (DOMAIN files \ {f}) \cup {g} |-> IF h = g THEN files[f] ELSE files[h]]
Call(do, n) == [do |-> do, n |-> n, new |-> FALSE]
Calls(do, ns) == [i \in 1..Len(ns) |-> Call(do, ns[i])]

-----------------------------------------------------------------------------
(* main: reading.                                                           *)

Idle == [job |-> "none", calls |-> <<>>, root |-> RootMenu, asked |-> FALSE, lines |-> NoLines, todo |-> {}]
Runs(job, asks) == [Idle EXCEPT !.job = job, !.calls = asks]
Spend(what) == spent' = [spent EXCEPT ![what] = @ + 1]

Begins(job, st, next, calls) ==
    /\ phase = "off" /\ job \in Jobs /\ spent.runs < MaxRuns
    /\ sym' = ShowAll(st) /\ phase' = next
    /\ proc' = Runs(job, calls)
    /\ Spend("runs")
    /\ UNCHANGED <<table, files, touched>>

Check == <<Call("check", RootMenu)>>
Config == Begins("config", ReadCfg, "walk", <<Call("conf", RootMenu)>>)
Oldconfig == Begins("oldconfig", ReadCfg, "walk", Check)
Olddefconfig == Begins("olddefconfig", ReadCfg, "save", <<>>)
Defconfig_ == Exists("def") /\ Begins("defconfig", SetAllNewSymbols(ConfRead(Blank, files["def"])), "save", <<>>)
Allconfig(v) == Begins(IF v = 0 THEN "allno" ELSE "allyes", SetAllNewTo(Blank, v), "save", <<>>)
Savedefconfig == Begins("savedefconfig", ReadCfg, "minimal", <<>>)
Syncconfig == Exists("cfg") /\ Begins("syncconfig", ReadCfg, "walk", Check)

-----------------------------------------------------------------------------
(* The walk.  Steps see the head of the list of calls.                       *)

Now(do) == phase = "walk" /\ proc.calls # <<>> /\ Head(proc.calls).do = do
This == Head(proc.calls).n
Walked == UNCHANGED <<table, phase, files, touched, spent>>
Instead(cs) == [proc EXCEPT !.calls = cs \o Tail(@)]
OnlyNew == proc.job # "config"

Hidden == /\ Now("check") \/ Now("conf")
          /\ ~Shows(sym, This)
          /\ proc' = Instead(<<>>)
          /\ Walked /\ UNCHANGED sym

\* check_conf: a new symbol that can be changed, or a new choice that is on, has
\* the menu that it is in asked for.
Asking(n) == n \in Symbols \cup Numbers /\ IsNew(Looked(sym, n), n)
             /\ (Changable(sym, n) \/ (n \in ChoiceSyms /\ sym.cur[n] = 2))
CheckConf ==
    /\ Now("check") /\ Shows(sym, This)
    /\ sym' = Looked(sym, This)
    /\ proc' = IF Asking(This)
               THEN [Instead(<<Call("conf", ParentMenu(This))>> \o Calls("check", Sub(This)))
                       EXCEPT !.asked = TRUE, !.root = ParentMenu(This)]
               ELSE Instead(Calls("check", Sub(This)))
    /\ Walked

\* conf: of other menus only what is new; a choice's state, then its member.
ConfCalls(n) ==
    CASE IsMenu(n) /\ OnlyNew /\ n # proc.root -> <<Call("check", n)>>
      [] n \in ChoiceSyms -> <<Call("sym", n), [do |-> "choice", n |-> n, new |-> IsNew(Looked(sym, n), n)]>>
      [] n \in Syms \ ChoiceSyms -> <<Call("sym", n)>> \o Calls("conf", Sub(n))
      [] OTHER -> Calls("conf", Sub(n))
Conf == /\ Now("conf") /\ Shows(sym, This)
        /\ sym' = Looked(sym, This)
        /\ proc' = Instead(ConfCalls(This))
        /\ Walked

\* conf_askvalue, with conf_sym and conf_string around it: a value that is refused
\* is asked for again.
Asks(n) == Changable(sym, n) /\ (OnlyNew => IsNew(sym, n))
Accepts(n, v) == Outcome(sym, n, v).ok /\ (n \in Ranged => v # Empty)
NotAsked == /\ Now("sym") /\ ~Asks(This)
            /\ proc' = Instead(<<>>)
            /\ Walked /\ UNCHANGED sym
Answer(v) == /\ Now("sym") /\ Asks(This) /\ Accepts(This, v)
             /\ sym' = ShowAll(AfterSet(Outcome(sym, This, v)))
             /\ proc' = Instead(<<>>)
             /\ Walked
Values(n) == Inputs(n) \cup {sym.cur[n]}

\* conf_choice after the state of the choice: nothing below one that is n, the
\* members one by one when it is m, one of the visible members when it is y.
ChoiceState == /\ Now("choice") /\ sym.cur[This] # 2
               /\ proc' = Instead(IF sym.cur[This] = 1 THEN Calls("conf", Sub(This)) ELSE <<>>)
               /\ Walked /\ UNCHANGED sym
PickableIn(c) == IF Len(ShownMembers(sym, c)) > 1 /\ (OnlyNew => Head(proc.calls).new)
                 THEN ToSet(ShownMembers(sym, c)) ELSE {sym.pick[c]}
PickMember(m) == /\ Now("choice") /\ sym.cur[This] = 2 /\ m \in PickableIn(This)
                 /\ sym' = ShowAll(AfterSet(TristateSet(sym, m, 2)))
                 /\ proc' = Instead(Calls("conf", Sub(m)))
                 /\ Walked

\* main: after the questions of `config', and again until there was none.
Again == /\ phase = "walk" /\ proc.calls = <<>> /\ (proc.asked \/ ~OnlyNew)
         /\ proc' = [proc EXCEPT !.calls = Check, !.asked = FALSE,
                                 !.job = IF OnlyNew THEN @ ELSE "oldconfig"]
         /\ Walked /\ UNCHANGED sym
Answered == /\ phase = "walk" /\ proc.calls = <<>> /\ OnlyNew /\ ~proc.asked
            /\ phase' = IF proc.job # "syncconfig" \/ sym.dirty THEN "save" ELSE "autoconf"
            /\ UNCHANGED <<table, sym, files, proc, touched, spent>>

-----------------------------------------------------------------------------
(* Writing.                                                                 *)

Step(from, to, fs) == phase = from /\ phase' = to /\ files' = fs /\ UNCHANGED <<table, spent>>
Exit == sym' = Blank /\ proc' = Idle

\* conf_write_defconfig writes in place.
Truncate == Step("minimal", "defconfig", Put("def", NoLines)) /\ UNCHANGED <<sym, proc, touched>>
WriteDefconfig == /\ Step("defconfig", "off", Put("def", Defconfig(ShowAll(ClearAllValid(sym)))))
                  /\ Exit /\ UNCHANGED touched

\* conf_write: a temporary file, .config to .config.old, the temporary to .config.
\* mutant: .config is written in place.
WriteInPlace == /\ phase = "save" /\ phase' = "written" /\ files' = Put("cfg", NoLines)
                /\ sym' = Flushed(ToWrite(sym))
                /\ proc' = [proc EXCEPT !.lines = Emitted(ToWrite(sym))]
                /\ UNCHANGED <<table, spent, touched>>
WriteTmp == /\ Step("save", "written", files)
            /\ sym' = Flushed(ToWrite(sym))
            /\ proc' = [proc EXCEPT !.lines = Emitted(ToWrite(sym))]
            /\ UNCHANGED touched
RenameOld == /\ Step("written", "renamed", IF Exists("cfg") THEN Moved("cfg", "old") ELSE files)
             /\ UNCHANGED <<sym, proc, touched>>
Rename == /\ Step("renamed", IF proc.job = "syncconfig" THEN "autoconf" ELSE "off", Put("cfg", proc.lines))
          /\ IF proc.job = "syncconfig" THEN sym' = Saved(sym) /\ UNCHANGED proc ELSE Exit
          /\ UNCHANGED touched

\* conf_write_autoconf: the headers of what changed, then the three files, auto.conf last.
Auto == IF Exists("auto") THEN files["auto"] ELSE NoLines
Split(st) == /\ sym' = st
             /\ proc' = [proc EXCEPT !.todo = ToTouch(st, Auto), !.lines = AutoLines(st)]
SplitConfig == Step("autoconf", "touch", files) /\ Split(ShowAll(ReadAuto(sym))) /\ UNCHANGED touched
Touch(s) == /\ Step("touch", "touch", files) /\ s \in proc.todo
            /\ proc' = [proc EXCEPT !.todo = @ \ {s}]
            /\ touched' = touched \cup {s}
            /\ UNCHANGED sym
\* mutant: auto.conf is replaced before the header.
AutoConfFirst == /\ proc.todo = {} /\ Step("touch", "header", Put("auto", proc.lines))
                 /\ touched' = {} /\ UNCHANGED <<sym, proc>>
AutoHeader == /\ proc.todo = {} /\ Step("touch", "header", Put("autoconf.h", proc.lines))
              /\ UNCHANGED <<sym, proc, touched>>
OnlyTristates(lines) == [s \in DOMAIN lines \cap Tristates |-> lines[s]]
TristateConf == /\ Step("header", "tristate", Put("tristate.conf", OnlyTristates(proc.lines)))
                /\ UNCHANGED <<sym, proc, touched>>
AutoConf == /\ Step("tristate", "off", Put("auto", proc.lines))
            /\ touched' = {}
            /\ Exit

-----------------------------------------------------------------------------

Kill == /\ phase # "off" /\ spent.kills < MaxKills
        /\ phase' = "off" /\ Exit /\ Spend("kills")
        /\ UNCHANGED <<table, files, touched>>
\* New Config.in files.
Upgrade == /\ phase = "off" /\ spent.upgrades < MaxUpgrades /\ spent.runs < MaxRuns
           /\ \E t \in DOMAIN Tables : Tables[t] # table /\ table' = Tables[t]
           /\ Spend("upgrades")
           /\ UNCHANGED <<phase, sym, files, proc, touched>>
Finished == phase = "off" /\ spent.runs = MaxRuns /\ UNCHANGED vars

Walk == \/ Hidden \/ CheckConf \/ Conf \/ NotAsked \/ ChoiceState \/ Again \/ Answered
        \/ Now("sym") /\ \E v \in Values(This) : Answer(v)
        \/ \E m \in Syms : PickMember(m)
Write == \/ Truncate \/ WriteDefconfig \/ WriteTmp \/ RenameOld \/ Rename
         \/ SplitConfig \/ AutoHeader \/ TristateConf \/ AutoConf
         \/ (proc.todo # {} /\ Touch(Pick(proc.todo)))
Start == \/ Config \/ Oldconfig \/ Olddefconfig \/ Defconfig_ \/ Savedefconfig \/ Syncconfig
         \/ \E v \in {0, 2} : Allconfig(v)

ConfInit == /\ FromTables /\ phase = "off" /\ sym = Blank
            /\ files \in FirstFiles /\ proc = Idle /\ touched = {}
            /\ spent = [runs |-> 0, kills |-> 0, upgrades |-> 0]
ConfNext == Start \/ Walk \/ Write \/ Kill \/ Upgrade \/ Finished

\* The user answers every question in the end, and the program is scheduled: while a
\* run is on a step of it can be taken, and one is.  This is weak fairness of
\* Walk \/ Write, one of which is enabled whenever phase # "off" (TLC finds no
\* deadlock), without ENABLED.
Scheduled == []<>(phase = "off") \/ []<><<phase # "off">>_vars
ConfSpec == ConfInit /\ [][ConfNext]_vars /\ Scheduled

-----------------------------------------------------------------------------
(* Properties.                                                              *)

\* What is written to .config and read again with the same Config.in files gives
\* every symbol the value it had, and nothing that would have to be saved (conf_write,
\* conf_read): syncconfig does not rewrite what a configurator has written.
SameValues(st) == \A s \in table.syms : st.cur[s] = sym.cur[s]
RoundTrip == phase = "written" => LET st == ConfRead(Blank, proc.lines) IN SameValues(ShowAll(st)) /\ ~st.dirty

\* "All values that has default values are skipped as this is redundant"
\* (conf_write_defconfig): a defconfig gives every symbol the value it was written
\* from.
DefconfigOf(st) == Defconfig(ShowAll(ClearAllValid(st)))
FromDefconfig(lines) == ShowAll(SetAllNewSymbols(ConfRead(Blank, lines)))
DefconfigSuffices == phase \in {"minimal", "written"} => SameValues(FromDefconfig(DefconfigOf(sym)))

\* What conf does to the files is what ConfFiles says, a line being a name with its
\* value: .config is replaced only by a whole file, auto.conf last of all, and the
\* headers that are touched before are those of all lines that change, also of symbols
\* that are no longer written or no longer exist (conf_write, conf_split_config,
\* conf_write_autoconf).
Text(f) == {<<s, f[s]>> : s \in DOMAIN f}
OneFile(f) == IF f \in DOMAIN files THEN <<Text(files[f])>> ELSE <<>>
Lines(f) == IF f \in DOMAIN files THEN Text(files[f]) ELSE {}
Promised == INSTANCE ConfFiles WITH
    Name <- ToSet(MenuOrder), Setting <- Int,
    at <- CASE phase \in {"walk", "minimal", "defconfig"} -> "busy" [] phase = "tristate" -> "header" [] OTHER -> phase,
    config <- OneFile("cfg"), old <- OneFile("old"),
    auto <- Lines("auto"), header <- Lines("autoconf.h"),
    lines <- Text(proc.lines), todo <- proc.todo, touched <- touched
WritesAsPromised == Promised!FilesSpec

\* The newest configuration at hand, .config or else .config.old, is replaced only by
\* one that has been written to its end, wherever conf is killed and whatever runs
\* follow.
ConfigKept == Promised!ConfigKept

\* "This must be the last step": when auto.conf is replaced, the header of every
\* symbol whose line in it changes has been touched since the last time, also when
\* conf was killed in between and when Config.in files have changed; and autoconf.h
\* has the same lines.  The change of a symbol's type is not among the changes: the
\* line of before is then dropped on reading, and the header may not be touched
\* (confdata.c:148-151, 183-186, 900-913).
HeadersTouched == Promised!HeadersTouched

\* Every run of conf comes to its end, whatever the user answers: no symbol is asked
\* for again and again (the loop on conf_cnt in main).
RunsEnd == phase # "off" ~> phase = "off"

\* "The SYMBOL_VALID bit is set in 'flags' when this is up to date" (expr.h): what
\* conf asks with and writes is what a calculation from nothing gives.
ValidIsUpToDate == phase \in {"walk", "save"} => AgreesWith(Recalculated(sym))
=============================================================================
