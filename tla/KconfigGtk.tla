----------------------------- MODULE KconfigGtk -----------------------------
(***************************************************************************)
(* gconf (support/kconfig/gconf.c).  In its full view one tree shows all   *)
(* entries; in the single view one menu, from which one goes down and back *)
(* up; in the split view the menus on the left and, on the right, what the *)
(* one that was clicked holds.  After a change the rows are not made anew  *)
(* but updated in place (update_tree).  What the rows say is left out, but *)
(* not that the values are calculated in order to fill them.  The modes    *)
(* that show all entries and those with a prompt show the same entries     *)
(* here, for all have one.                                                 *)
(***************************************************************************)
EXTENDS KconfigWindows

LOCAL INSTANCE SequencesExt

GtkAt == Using("gconf")

-----------------------------------------------------------------------------
(* display_tree: the rows from nothing, on the left or in the main tree.  w   *)
(* is the state of the window.                                               *)

GtkShows(w, st, n) == w.opt # "normal" \/ Shows(st, n)
GtkHere(w, n, left) == w.view = "split" => IsRoot(n) = left
GtkInner(w, p, n, left) == /\ w.view = "full" \/ left \/ ~IsMenu(n)
                           /\ w.view = "single" => IsRoot(p)
RECURSIVE GtkTree(_, _, _, _)
GtkTree(w, st, p, left) ==
    LET ns == SelectSeq(Sub(p), LAMBDA n : GtkHere(w, n, left) /\ GtkShows(w, st, n))
    IN  [i \in 1..Len(ns) |-> Item(ns[i], IF GtkInner(w, p, ns[i], left) THEN GtkTree(w, st, ns[i], left) ELSE <<>>)]
GtkAll(w, st) == GtkTree(w, st, RootMenu, FALSE)

\* display_tree_part, display_list.
GtkPart(w, st) == [w EXCEPT !.rows = GtkTree(w, st, IF w.view = "single" THEN w.current ELSE w.browsed, FALSE),
                            !.mixed = FALSE]
GtkList(w, st) == [w EXCEPT !.left = GtkTree(w, st, RootMenu, TRUE), !.current = RootMenu]

-----------------------------------------------------------------------------
(* update_tree: the children ns of an entry against its rows, of which some   *)
(* are done.  A row in the way of an entry that has its own further on goes;  *)
(* when it was the last one the function returns, whatever children follow.   *)

RECURSIVE GtkUpdate(_, _, _, _), GtkWalk(_, _, _, _, _)
GtkUpdate(w, st, p, rows) == GtkWalk(w, st, Sub(p), <<>>, rows)
GtkPut(w, st, ns, done, kids, rest) ==
    GtkWalk(w, st, Tail(ns), Append(done, Item(Head(ns), GtkUpdate(w, st, Head(ns), kids))), rest)
GtkDrop(w, st, ns, done, rest) == IF Len(rest) <= 1 THEN done ELSE GtkWalk(w, st, ns, done, Tail(rest))
\* mutant: an entry that does not show is passed by, and its row stays.
GtkWalkPast(w, st, ns, done, rest) ==
    CASE ns = <<>> -> done \o rest
      [] rest # <<>> /\ Head(rest).n = Head(ns) -> GtkPut(w, st, ns, done, Head(rest).kids, Tail(rest))
      [] ~GtkShows(w, st, Head(ns)) -> GtkWalk(w, st, Tail(ns), done, rest)
      [] Head(ns) \notin NodesIn(done \o rest) -> GtkPut(w, st, ns, done, <<>>, rest)
      [] OTHER -> GtkDrop(w, st, ns, done, rest)
GtkWalk(w, st, ns, done, rest) ==
    IF ns = <<>> THEN done \o rest
    ELSE LET n == Head(ns)
             shows == GtkShows(w, st, n)
             found == n \in NodesIn(done \o rest)
         IN  CASE ~shows /\ ~found -> GtkWalk(w, st, Tail(ns), done, rest)
               [] shows /\ rest # <<>> /\ Head(rest).n = n -> GtkPut(w, st, ns, done, Head(rest).kids, Tail(rest))
               [] shows /\ ~found -> GtkPut(w, st, ns, done, <<>>, rest)
               [] OTHER -> GtkDrop(w, st, ns, done, rest)

\* After a change: the tree of all, what is browsed, or the menu anew.
GtkRedrawn(w, st) ==
    CASE w.view = "full" -> [w EXCEPT !.rows = GtkUpdate(w, st, RootMenu, @)]
      [] w.view = "split" -> GtkList([w EXCEPT !.rows = GtkUpdate(w, st, w.browsed, @)], st)
      [] w.view = "single" -> GtkPart(w, st)

\* Only in the normal mode are all rows looked at; in the others the new ones are.
GtkNow(w, st) == IF w.opt = "normal" THEN ShowAll(st) ELSE st
GtkLooked(w) ==
    NodesIn(w.left) \cup IF w.opt = "normal" \/ w.view = "single" THEN NodesIn(w.rows)
                         ELSE NodesIn(w.rows) \ NodesIn(win.rows)
GtkDraws(st, w) == win' = w /\ sym' = Filled(st, GtkLooked(w))
GtkClears(st, w) == win' = w /\ sym' = Filled(st, NodesIn(w.left) \cup NodesIn(w.rows))

-----------------------------------------------------------------------------
(* main, the view buttons, and the way down and up.                          *)

GtkFirst == [view |-> "full", opt |-> "normal", current |-> RootMenu, browsed |-> None, back |-> FALSE,
             rows |-> <<>>, left |-> <<>>, mixed |-> FALSE]
GtkAnew(w, st) == [w EXCEPT !.rows = GtkAll(w, st), !.current = RootMenu, !.mixed = FALSE]
StartGtk == LET st == ShowAll(ReadCfg)
            IN  Starts("gconf", NoScreens) /\ GtkClears(st, GtkAnew(GtkFirst, st))

GtkTurnsTo(w) == GtkClears(GtkNow(w, sym), w)
GtkTurns(w) == GtkAt /\ Turns /\ GtkTurnsTo(w)
GtkOption == /\ GtkAt
             /\ \E o \in {"normal", "all"} :
                    GtkTurns(GtkAnew([win EXCEPT !.opt = o], GtkNow([win EXCEPT !.opt = o], sym)))
GtkSingle == GtkTurns(GtkPart([win EXCEPT !.view = "single", !.left = <<>>, !.current = RootMenu], sym))
GtkSplit == GtkTurns(GtkList([win EXCEPT !.view = "split", !.rows = <<>>, !.back = FALSE, !.mixed = FALSE], sym))
GtkFull == GtkTurns(GtkAnew([win EXCEPT !.view = "full", !.left = <<>>, !.back = FALSE], sym))
GtkDown(n) == /\ GtkAt /\ n \in NodesIn(win.rows) /\ IsMenu(n) /\ win.view # "full"
              /\ GtkTurns(GtkPart([win EXCEPT !.current = n, !.back = TRUE], sym))
\* The parent, or its own when that is no menu.
Upwards(n) == IF IsMenu(Above(n)) THEN Above(n) ELSE Above(Above(n))
GtkBack == /\ GtkAt /\ win.back /\ win.current # RootMenu
           /\ Returns
           /\ GtkTurnsTo(GtkPart([win EXCEPT !.current = Upwards(@), !.back = (Upwards(win.current) # RootMenu)], sym))
\* The main menu has no parent.
GtkBackCrash == /\ GtkAt /\ win.back /\ win.current = RootMenu
                /\ Shuts("crashed", ui.name) /\ UNCHANGED <<table, sym, files, spent>>
GtkBrowse(n) == /\ GtkAt /\ n \in NodesIn(win.left)
                /\ GtkTurns(GtkPart([win EXCEPT !.browsed = n], sym))

-----------------------------------------------------------------------------
(* Values.                                                                   *)

GtkSets(r) == LET st == GtkNow(win, AfterSet(r)) IN Edits(r, NoScreens) /\ GtkDraws(st, GtkRedrawn(win, st))
GtkSetColumn(n, v) == /\ GtkAt /\ n \in NodesIn(win.rows) \cap Symbols
                      /\ GtkSets(TristateSet(sym, n, IF WithinRange(sym, n, v) THEN v ELSE 2))
\* A click on the value, or two on an entry that one does not go down into.
GtkToggle(n) == GtkAt /\ n \in NodesIn(win.rows) \cap Symbols /\ GtkSets(Toggle(sym, n))
\* Of a number: set by the user, to what it was set to before or to nothing.
GtkToggleNumber(n) == /\ GtkAt /\ n \in NodesIn(win.rows) \cap Numbers
                      /\ GtkSets(Accepted([sym EXCEPT !.has = @ \cup {n}], FALSE))
GtkEdit(n, v) == /\ GtkAt /\ n \in NodesIn(win.rows) \cap Numbers
                 /\ LET r == Outcome(sym, n, v)
                        st == GtkNow(win, AfterSet(r))
                    IN  /\ Edits(r, NoScreens)
                        /\ GtkDraws(st, [win EXCEPT !.rows = GtkUpdate(win, st, RootMenu, @),
                                                    !.mixed = @ \/ win.view # "full"])
GtkToggleLeft(n) == /\ GtkAt /\ n \in NodesIn(win.left) \cap Symbols /\ win.browsed = n
                    /\ LET r == Toggle(sym, n)
                           st == GtkNow(win, AfterSet(r))
                           w == [GtkRedrawn(win, st) EXCEPT !.current = n]
                       IN  Edits(r, NoScreens) /\ GtkClears(st, GtkPart(w, st))
\* Two clicks on an entry of the left without a symbol.
GtkEnterLeft(n) == /\ GtkAt /\ n \in NodesIn(win.left) \ Syms /\ win.browsed = n
                   /\ GtkTurns(GtkPart([win EXCEPT !.current = n], sym))

-----------------------------------------------------------------------------
(* Files.  The rows of a file that was loaded come after those of before.     *)

GtkLoad(f) == /\ GtkAt /\ Exists(f)
              /\ LET st == ShowAll(LoadFrom(sym, f))
                 IN  GtkClears(st, [win EXCEPT !.rows = @ \o GtkAll(win, st), !.current = RootMenu, !.mixed = TRUE])
              /\ ui' = [ui EXCEPT !.name = f, !.failed = ""]
              /\ Filed(files)
GtkLoadFails(f) == GtkAt /\ LoadFails(f)
GtkSaveAs(f) == GtkAt /\ (SaveTo(f) \/ SaveToFails(f))
GtkCloseFails == GtkAt /\ sym.dirty /\ CannotWrite /\ Shuts("not saved", ui.name) /\ FiledLast(files)

GtkNext ==
    \/ StartGtk \/ GtkOption \/ GtkSingle \/ GtkSplit \/ GtkFull \/ GtkBack \/ GtkBackCrash
    \/ \E n \in Entries : \/ GtkDown(n) \/ GtkBrowse(n) \/ GtkToggle(n) \/ GtkToggleNumber(n)
                          \/ GtkToggleLeft(n) \/ GtkEnterLeft(n)
                          \/ \E v \in 0..2 : GtkSetColumn(n, v)
                          \/ \E v \in Entered : GtkEdit(n, v)
    \/ \E f \in Names : GtkLoad(f) \/ GtkLoadFails(f) \/ GtkSaveAs(f)
    \/ GtkCloseFails

-----------------------------------------------------------------------------

\* The full view, normal mode, and rows that are not those of two configurations:
\* every row is of an entry that shows, below the row of the menu it is in, in the
\* order of the menus, and no entry has two (update_tree).
RECURSIVE GtkPruned(_, _)
GtkPruned(rows, p) ==
    LET ns == [i \in DOMAIN rows |-> rows[i].n]
    IN  /\ ns = SelectSeq(Sub(p), LAMBDA n : Contains(ns, n))
        /\ \A i \in DOMAIN rows : Shows(sym, rows[i].n) /\ GtkPruned(rows[i].kids, rows[i].n)
GtkRowsShow ==
    Using("gconf") /\ win.view = "full" /\ win.opt = "normal" /\ ~win.mixed => GtkPruned(win.rows, RootMenu)
=============================================================================
