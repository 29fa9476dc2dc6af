------------------------------ MODULE KconfigQt ------------------------------
(***************************************************************************)
(* qconf (support/kconfig/qconf.cc).  Two lists of rows, that of the       *)
(* menus, seen in the split view only, and that of the options of one menu *)
(* or of all.  After a change each list is gone through, rows appear and   *)
(* disappear, and those that stay get a new text only if their entry is    *)
(* flagged as changed (MENU_CHANGED); the flag is then cleared, for every  *)
(* row of the entry in either list has been updated.  The window to search *)
(* in and the mark of new symbols are left out.  The modes that show all   *)
(* entries and those with a prompt are one here, for all have a prompt.    *)
(***************************************************************************)
EXTENDS KconfigWindows

LOCAL INSTANCE SequencesExt

QtAt == Using("qconf")

-----------------------------------------------------------------------------
(* A list l has a mode, the entry it starts at, and its rows; opt is that of   *)
(* both lists.                                                               *)

NoList == [mode |-> "single", root |-> None, rows |-> <<>>]
QtRow(n, text, kids) == [n |-> n, text |-> text, kids |-> kids]
Parents == QtRow("..", "", <<>>)

\* updateMenu.
QtText(st, opt, l, n) ==
    IF n \notin Syms \/ (IsMenu(n) /\ l.mode \in {"single", "symbol"} /\ l.root # n) THEN ""
    ELSE IF n \in Symbols /\ opt = "normal" /\ ~Changable(st, n) THEN "fixed"
    ELSE IF n \in Symbols THEN <<st.cur[n], st.vis[n], st.rev[n]>> ELSE <<st.cur[n]>>

\* menuSkip, and what a mode hides.
QtSkips(st, opt, n) == opt = "normal" /\ ~Shows(st, n)
QtHides(st, opt, l, n) ==
    \/ l.mode = "menu" /\ ~IsRoot(n)
    \/ l.mode = "symbol" /\ IsRoot(n)
    \/ QtSkips(st, opt, n)
QtInner(l, n) == l.mode \in {"full", "menu"} \/ ~IsMenu(n)

\* updateMenuList: the children ns of an entry against its rows.  fresh is the set of
\* the entries whose rows get a new text.
RECURSIVE QtUpdate(_, _, _, _, _, _)
QtFresh(st, opt, l, fresh, n, rows) ==
    QtRow(n, QtText(st, opt, l, n), IF QtInner(l, n) THEN QtUpdate(st, opt, l, fresh, n, rows) ELSE <<>>)
QtKept(st, opt, l, fresh, r) ==
    IF r.n \in fresh THEN QtFresh(st, opt, l, fresh, r.n, r.kids)
    ELSE [QtFresh(st, opt, l, fresh, r.n, r.kids) EXCEPT !.text = r.text]
QtStep(st, opt, l, fresh, a, n) ==
    LET own == a.rest # <<>> /\ Head(a.rest).n = n
    IN  CASE QtHides(st, opt, l, n) -> IF own THEN [a EXCEPT !.rest = Tail(@)] ELSE a
          [] own -> [done |-> Append(a.done, QtKept(st, opt, l, fresh, Head(a.rest))), rest |-> Tail(a.rest)]
          [] OTHER -> [a EXCEPT !.done = Append(@, QtFresh(st, opt, l, fresh, n, <<>>))]
QtUpdate(st, opt, l, fresh, p, rows) ==
    LET a == FoldLeft(LAMBDA b, n : QtStep(st, opt, l, fresh, b, n), [done |-> <<>>, rest |-> rows], Sub(p))
    IN  a.done \o a.rest

\* updateList: the way up, the entry itself, its children.
QtHasParent(l) == l.root # RootMenu /\ (l.mode = "single" \/ (l.mode = "symbol" /\ Above(l.root) # RootMenu))
QtHasSelf(l) == (l.mode = "single" \/ (l.mode = "symbol" /\ ~IsRoot(l.root))) /\ l.root \in Syms
QtBelow(l) == IF l.rows # <<>> /\ l.rows[1].n = ".." THEN Tail(l.rows) ELSE l.rows
QtSelf(st, opt, l, fresh) ==
    LET rows == QtBelow(l)
        r == IF rows = <<>> THEN QtFresh(st, opt, l, fresh, l.root, <<>>) ELSE QtKept(st, opt, l, fresh, rows[1])
    IN  <<[r EXCEPT !.kids = QtUpdate(st, opt, l, fresh, l.root, IF rows = <<>> THEN <<>> ELSE rows[1].kids)]>>
QtRows(st, opt, l, fresh) ==
    IF l.root = None THEN <<>>
    ELSE (IF QtHasParent(l) THEN <<Parents>> ELSE <<>>)
         \o IF QtHasSelf(l) THEN QtSelf(st, opt, l, fresh) ELSE QtUpdate(st, opt, l, fresh, l.root, QtBelow(l))

\* testUpdateMenu: all rows of the flagged entries that are gone through, in both lists.
RECURSIVE QtRetext(_, _, _, _, _)
QtRetext(st, opt, l, ns, rows) ==
    [i \in DOMAIN rows |->
        [rows[i] EXCEPT !.text = IF rows[i].n \in ns THEN QtText(st, opt, l, rows[i].n) ELSE @,
                        !.kids = QtRetext(st, opt, l, ns, @)]]
Other(a) == IF a = "config" THEN "menu" ELSE "config"
QtTested(w, a, rows) == w.flagged \cap NodesIn(w[a].rows) \cap NodesIn(rows)
\* mutant: a flag is cleared when the first of the rows has been updated.
QtTellOne(st, w, a, rows, ns) == [w EXCEPT ![a].rows = rows, !.flagged = @ \ ns]
QtTell(st, w, a, rows, ns) ==
    [w EXCEPT ![a].rows = rows,
              ![Other(a)].rows = QtRetext(st, w.opt, w[Other(a)], ns, @),
              !.flagged = @ \ ns]
QtTexts(st, w, a, rows) == QtTell(st, w, a, rows, QtTested(w, a, rows))
\* updateList of one list and of both; updateListAll.
QtPass(st, w, a, fresh) == QtTexts(st, w, a, QtRows(st, w.opt, w[a], fresh))
QtOne(st, w, a) == QtPass(st, w, a, w.flagged)
QtBoth(st, w) == QtOne(st, QtOne(st, w, "config"), "menu")
QtAll(st, w, a) == QtPass(st, w, a, Nodes)
QtBothAll(st, w) == QtAll(st, QtAll(st, w, "config"), "menu")

\* setRootMenu.
QtSetRoot(st, w, a, n) == IF w[a].root = n \/ ~IsMenu(n) THEN w
                          ELSE QtAll(st, [w EXCEPT ![a].rows = <<>>, ![a].root = n], a)

\* showSingleView, showFullView, showSplitView.
QtMode(st, w, mode) == IF w.config.root = RootMenu THEN QtAll(st, [w EXCEPT !.config.mode = mode], "config")
                       ELSE QtSetRoot(st, [w EXCEPT !.config.mode = mode], "config", RootMenu)
QtView(st, w, mode) == IF mode # "symbol" THEN QtMode(st, w, mode)
                       ELSE QtSetRoot(st, [QtMode(st, w, mode) EXCEPT !.menu.mode = "menu"], "menu", RootMenu)

\* sym_set_changed: the entries to flag when values have been calculated again.
Changed(st, new) ==
    {s \in Syms \cap Nodes : <<st.cur[s], st.vis[s], st.dir[s], st.rev[s], st.imp[s]>>
                               # <<new.cur[s], new.vis[s], new.dir[s], new.rev[s], new.imp[s]>>
                             \/ (s \in ChoiceSyms /\ st.pick[s] # new.pick[s])}
QtFlags(st, w, more) == [w EXCEPT !.flagged = @ \cup Changed(sym, st) \cup more]
QtDraws(st, w) == /\ win' = w
                  /\ sym' = LookedAt(st, Nodes \cap (NodesIn(w.config.rows) \cup NodesIn(w.menu.rows)))

-----------------------------------------------------------------------------
(* main, the views, and the way through the menus.                           *)

QtFirst == [config |-> NoList, menu |-> NoList, opt |-> "normal", flagged |-> {}]
QtModes == {"single", "full", "symbol"}
StartQt == LET st == ShowAll(ReadCfg)
           IN  /\ Starts("qconf", NoScreens)
               /\ \E mode \in QtModes : QtDraws(st, QtView(st, QtFlags(st, QtFirst, {}), mode))

QtTurns(w) == Turns /\ QtDraws(sym, w)
QtShowView == QtAt /\ \E mode \in QtModes \ {win.config.mode} : QtTurns(QtView(sym, win, mode))
QtOption == QtAt /\ \E o \in {"normal", "all"} \ {win.opt} : QtTurns(QtBothAll(sym, [win EXCEPT !.opt = o]))
QtMenus == IF win.config.mode = "symbol" THEN NodesIn(win.menu.rows) ELSE {}
QtChangeMenu(n) == /\ QtAt /\ IsMenu(n) /\ win.config.root # n
                   /\ n \in QtMenus \/ (n \in NodesIn(win.config.rows) /\ win.config.mode # "full")
                   /\ QtTurns(QtSetRoot(sym, win, "config", n))
QtBack == /\ QtAt /\ win.config.root # RootMenu
          /\ Returns /\ QtDraws(sym, QtSetRoot(sym, win, "config", ParentMenu(Above(win.config.root))))
\* setMenuLink: a link in the help text.
QtLink(n) == /\ QtAt /\ ~QtSkips(sym, win.opt, n) /\ win.config.mode # "full"
             /\ QtTurns(QtSetRoot(sym, win, "config",
                                  CASE win.config.mode = "single" -> ParentMenu(n)
                                    [] IsRoot(n) -> n
                                    [] OTHER -> ParentMenu(Above(n))))

-----------------------------------------------------------------------------
(* Values.                                                                   *)

QtHas(n) == QtAt /\ n \in Syms \cap (QtMenus \cup NodesIn(win.config.rows))
QtUpdates(r, n) ==
    LET st == ShowAll(AfterSet(r))
    IN  /\ Edits(r, NoScreens)
        /\ QtDraws(st, QtBoth(st, QtFlags(st, win, r.st.has \cap ({n} \ sym.has))))
\* changeValue: nothing is updated when the value stays.
QtChangeValue(n) == /\ QtHas(n) /\ n \in Symbols
                    /\ IF Toggle(sym, n).clear THEN QtUpdates(Toggle(sym, n), n)
                       ELSE /\ sym' = Toggle(sym, n).st
                            /\ win' = QtFlags(sym, win, {n} \ sym.has)
                            /\ UNCHANGED <<table, phase, files, ui, spent>>
QtSetValue(n, v) == QtHas(n) /\ n \in Symbols /\ TristateSet(sym, n, v).ok /\ QtUpdates(TristateSet(sym, n, v), n)
QtEdit(n, v) == QtHas(n) /\ n \in Numbers /\ QtUpdates(Outcome(sym, n, v), n)

-----------------------------------------------------------------------------
(* Files.  The name that is chosen to save under is not used.                *)

QtLoad(f) == /\ QtAt /\ Exists(f)
             /\ LET st == ShowAll(LoadFrom(sym, f)) IN QtDraws(st, QtBothAll(st, QtFlags(st, win, {})))
             /\ ui' = [ui EXCEPT !.name = f, !.failed = ""]
             /\ Filed(files)
QtLoadFails(f) == QtAt /\ LoadMissing(f) /\ win' = QtBothAll(sym, win)
QtSaveAs == QtAt /\ (SaveTo("cfg") \/ SaveToFails("cfg"))
\* closeEvent: the window stays when saving fails.
QtCloseFails == /\ QtAt /\ sym.dirty /\ CannotWrite
                /\ ui' = [ui EXCEPT !.failed = "save"]
                /\ UNCHANGED <<table, phase, files, spent, win>>

QtNext ==
    \/ StartQt \/ QtShowView \/ QtOption
    \/ \E n \in Entries : \/ QtChangeMenu(n) \/ QtLink(n) \/ QtChangeValue(n)
                          \/ \E v \in 0..2 : QtSetValue(n, v)
                          \/ \E v \in Entered : QtEdit(n, v)
    \/ QtBack
    \/ \E f \in Names : QtLoad(f) \/ QtLoadFails(f)
    \/ QtSaveAs \/ QtCloseFails

-----------------------------------------------------------------------------

\* Both lists show what they would if they were filled from nothing: the rows of the
\* entries that show, in their order, with the values of the symbols as they are now
\* (updateMenuList, testUpdateMenu).
QtRowsFresh ==
    Using("qconf") => \A a \in {"config", "menu"} :
        win[a].rows = QtRows(sym, win.opt, [win[a] EXCEPT !.rows = <<>>], {})
=============================================================================
