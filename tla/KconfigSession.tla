--------------------------- MODULE KconfigSession ---------------------------
(***************************************************************************)
(* What a user of an interactive front end of kconfig does to the values   *)
(* and the files: reading a configuration, changing it, saving it under    *)
(* its own or another name, and leaving.  Each front end remembers whether *)
(* anything has changed (the change count), and asks before it leaves.     *)
(***************************************************************************)
EXTENDS KconfigView

LOCAL INSTANCE SequencesExt

CONSTANTS Programs,    \* the front ends that are looked at with each table
          FileNames,   \* the names a user may enter
          FirstFiles,  \* the files that may be there at first
          MaxEdits, MaxFiled, MaxTurns \* bounds on changes of values, on files read and
                       \* written, and on changes of what a window shows

VARIABLES ui,    \* the program, its screens, the file's name, and what the user was told
          spent  \* edits, file operations and turns so far

sessionVars == <<table, phase, sym, files, ui, spent>>
NoScreens == <<>>

-----------------------------------------------------------------------------
(* main.                                                                     *)

SessionInit ==
    /\ FromTables /\ files \in FirstFiles
    /\ phase = "off" /\ sym = Blank
    /\ ui = [prog |-> "none", on |-> NoScreens, name |-> "cfg", all |-> FALSE, failed |-> "", said |-> ""]
    /\ spent = [edits |-> 0, filed |-> 0, turns |-> 0]
OfTable == UNION {Programs[t] : t \in {t \in DOMAIN Tables : Tables[t] = table}}
Starts(prog, on) ==
    /\ phase = "off" /\ prog \in OfTable
    /\ phase' = "ui"
    /\ ui' = [ui EXCEPT !.prog = prog, !.on = on]
    /\ UNCHANGED <<table, files, spent>>
Using(prog) == phase = "ui" /\ ui.prog = prog
Names == IF phase = "ui" THEN FileNames ELSE {}
Entered == IF phase = "ui" THEN NumberInputs ELSE {}

\* Every value that an entry of ns shows is calculated, and its visibility looked at.
LookedAt(st, ns) == [st EXCEPT !.has = @ \cup UNION {Flagged(st, n) : n \in ns}]
Family(ns) == Syms \cap (ns \cup UNION {ToSet(Sub(n)) : n \in ns})
Filled(st, ns) == LookedAt(CalcAll(st, Family(ns)), ns)

\* The end: `saved' also when there was nothing to save.
Ends(said) == phase' = "over" /\ ui' = [ui EXCEPT !.on = NoScreens, !.said = said]

-----------------------------------------------------------------------------
(* Values.  The outcome r of setting one: r.clear when it was another one.   *)

MayEdit(r) == r.clear => spent.edits < MaxEdits
EditedUi(r, on) == [ui EXCEPT !.on = on, !.failed = IF r.clear THEN "" ELSE @]
Edits(r, on) ==
    /\ MayEdit(r)
    /\ ui' = EditedUi(r, on)
    /\ spent' = [spent EXCEPT !.edits = IF r.clear THEN @ + 1 ELSE @]
    /\ UNCHANGED <<table, phase, files>>
\* y, or m where y is refused.
SetYes(st, s) == IF TristateSet(st, s, 2).ok THEN TristateSet(st, s, 2) ELSE TristateSet(st, s, 1)
\* sym_toggle_tristate_value.
Toggle(st, s) == TristateSet(st, s, Toggled(st, s, st.cur[s]))

-----------------------------------------------------------------------------
(* Files.  ui.failed says that reading or writing one went wrong, of which    *)
(* the user was told, and no value was changed since.                         *)

Filed(fs) == /\ spent.filed < MaxFiled
             /\ spent' = [spent EXCEPT !.filed = @ + 1]
             /\ files' = fs
             /\ UNCHANGED <<table, phase>>
\* The last one is not counted.
FiledLast(fs) == files' = fs /\ UNCHANGED <<table, spent>>

\* conf_read: the change count is reset before the file is opened.
LoadMissing(f) == /\ ~Exists(f)
                  /\ sym' = [CalcModules(sym) EXCEPT !.dirty = FALSE]
                  /\ ui' = [ui EXCEPT !.failed = "load"]
                  /\ Filed(files)
\* mutant: the values of before stay where the file has none.
KeepOld(st, f) == ConfRead(st, [s \in DOMAIN files[f] \cup (st.has \cap InMenus) |->
                                   IF s \in DOMAIN files[f] THEN files[f][s] ELSE st.user[s]])
LoadFrom(st, f) == ConfRead(st, files[f])

\* conf_write, when the temporary file cannot be created, when it cannot be renamed
\* (what was written is written off all the same), and when all goes well.
CannotRename == sym' = Flushed(ToWrite(sym))
\* mutant: the change count is reset before the file is written.
WroteEarly == Saved(Flushed(ToWrite(Saved(sym))))
Wrote == Saved(Flushed(ToWrite(sym)))
\* The temporary file cannot be created, or not renamed.
CannotWrite == CannotRename \/ UNCHANGED sym
NewFiles(f) == Put(f, Emitted(ToWrite(sym)))
CanWrite == sym' = Wrote
SavedUi(f) == [ui EXCEPT !.name = f, !.failed = IF @ = "load" THEN "" ELSE @]

-----------------------------------------------------------------------------
(* Properties.                                                               *)

HeldBy(f, st) == /\ Exists(f)
                /\ \A s \in table.syms : ShowAll(ConfRead(Blank, files[f])).cur[s] = ShowAll(st).cur[s]

\* While nothing counts as changed, and after a session that ended without the
\* warning that changes were not saved, the file last loaded or saved has the values
\* of the session, unless the user was told that a file could not be read or written
\* and changed nothing since (conf_get_changed, handle_exit, do_exit, closeEvent).
NothingUnsaved ==
    ui.failed = "" /\ ((phase = "ui" /\ ~sym.dirty) \/ (phase = "over" /\ ui.said = "saved")) => HeldBy(ui.name, sym)

\* A file loaded in the course of a session gives what it gives a program just
\* started: nothing that the user set before shines through (conf_read_simple).
LoadIsFresh ==
    phase = "ui" /\ spent.filed < MaxFiled => \A f \in DOMAIN files :
        LET now == LoadFrom(sym, f)
            fresh == ConfRead(Blank, files[f])
        IN  /\ now.dirty = fresh.dirty
            /\ \A s \in table.syms : ShowAll(now).cur[s] = ShowAll(fresh).cur[s]
=============================================================================
