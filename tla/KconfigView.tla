---------------------------- MODULE KconfigView ----------------------------
(***************************************************************************)
(* What every front end of kconfig shares (support/kconfig/menu.c): the    *)
(* tree of entries, which of them show, and the files at hand.             *)
(***************************************************************************)
EXTENDS KconfigFile

LOCAL INSTANCE SequencesExt
LOCAL INSTANCE FiniteSetsExt

CONSTANTS Nodes,       \* the entries: symbols with a prompt, choices and menus
          RootMenu,    \* the main menu
          Menuconfigs  \* the symbols that are menus at the same time

VARIABLE files         \* from the names of the files that exist to their lines

Exists(f) == f \in DOMAIN files
Put(f, lines) == [g \in DOMAIN files \cup {f} |-> IF g = f THEN lines ELSE files[g]]
NoLines == <<>>

-----------------------------------------------------------------------------
(* menu_is_visible: an entry that does not show is looked through when its   *)
(* symbol is on and something below it shows; the symbol then counts as set  *)
(* by the user.                                                              *)

Sub(n) == table.sub[n]
Own(st, n) == IF n \in Syms THEN st.vis[n] # 0 ELSE Value(table.cond[n], st.cur) # 0
RECURSIVE Shows(_, _), Flagged(_, _)
Shows(st, n) == Own(st, n) \/ (n \in Symbols /\ st.cur[n] # 0 /\ \E c \in ToSet(Sub(n)) : Shows(st, c))
FirstShown(st, n) == SelectSeq(Sub(n), LAMBDA c : Shows(st, c))[1]
Flagged(st, n) == IF Own(st, n) \/ ~Shows(st, n) THEN {} ELSE {n} \cup Flagged(st, FirstShown(st, n))
Looked(st, n) == [st EXCEPT !.has = @ \cup Flagged(st, n)]

\* Prompts of type P_MENU; menu_get_parent_menu.
IsMenu(n) == n \notin Syms \/ n \in Menuconfigs
Entries == UNION {ToSet(Sub(n)) : n \in Nodes}
Above(n) == CHOOSE p \in Nodes : Contains(Sub(p), n)
RECURSIVE ParentMenu(_)
ParentMenu(n) == IF IsMenu(n) THEN n ELSE ParentMenu(Above(n))

IsNew(st, s) == s \notin st.has
Changable(st, s) == st.vis[s] > st.rev[s]

\* conf_read at the start of a program.
ReadCfg == IF Exists("cfg") THEN ConfRead(Blank, files["cfg"]) ELSE ConfReadNothing(Blank)
=============================================================================
