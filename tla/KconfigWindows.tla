--------------------------- MODULE KconfigWindows ---------------------------
(***************************************************************************)
(* What the front ends with windows, gconf and qconf (make gconfig and     *)
(* make xconfig), have in common: a tree of rows that is brought up to     *)
(* date after every change, one list of files and one question at the end. *)
(***************************************************************************)
EXTENDS KconfigSession

LOCAL INSTANCE SequencesExt

VARIABLE win   \* the views and the rows they show

winVars == <<table, phase, sym, files, ui, spent, win>>
NoWindow == <<>>

\* A row for an entry, with the rows below it.
Item(n, kids) == [n |-> n, kids |-> kids]
RECURSIVE NodesIn(_)
NodesIn(rows) == UNION {{rows[i].n} \cup NodesIn(rows[i].kids) : i \in DOMAIN rows}

\* fixup_rootmenu: MENU_ROOT is set on the menus within menus, and on all that is in none.
RECURSIVE RootsFrom(_, _)
RootsFrom(n, inside) ==
    {n} \cup UNION {RootsFrom(c, inside \/ IsMenu(c)) : c \in {c \in ToSet(Sub(n)) : IsMenu(c) \/ ~inside}}
IsRoot(n) == n \in RootsFrom(RootMenu, FALSE)

\* The view changes, the values do not.  The way back up is not counted.
Returns == UNCHANGED <<table, phase, files, ui, spent>>
Turns == /\ spent.turns < MaxTurns
         /\ spent' = [spent EXCEPT !.turns = @ + 1]
         /\ UNCHANGED <<table, phase, files, ui>>

-----------------------------------------------------------------------------
(* Files.                                                                    *)

LoadFails(f) == LoadMissing(f) /\ UNCHANGED win
SaveTo(f) == CanWrite /\ ui' = SavedUi(f) /\ Filed(NewFiles(f)) /\ UNCHANGED win
SaveToFails(f) == CannotRename /\ ui' = [ui EXCEPT !.failed = "save"] /\ Filed(files) /\ UNCHANGED win
\* on_save_activate, saveConfig: the button works while something has changed.
SaveButton == phase = "ui" /\ win # NoWindow /\ sym.dirty /\ (SaveTo("cfg") \/ SaveToFails("cfg"))

\* on_window1_delete_event, closeEvent: the window is closed at once, or after the
\* question whether to save.
Shuts(said, f) == /\ phase' = "over" /\ ui' = [ui EXCEPT !.said = said, !.name = f]
                  /\ win' = NoWindow
CloseSaved == ~sym.dirty /\ Shuts("saved", ui.name) /\ UNCHANGED <<table, sym, files, spent>>
CloseSaves == sym.dirty /\ CanWrite /\ Shuts("saved", "cfg") /\ FiledLast(NewFiles("cfg"))
CloseLoses == sym.dirty /\ Shuts("not saved", ui.name) /\ UNCHANGED <<table, sym, files, spent>>
Close == phase = "ui" /\ win # NoWindow /\ (CloseSaved \/ CloseSaves \/ CloseLoses)

WindowNext == SaveButton \/ Close
=============================================================================
