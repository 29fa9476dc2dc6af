--------------------------- MODULE KconfigFrontends ---------------------------
(***************************************************************************)
(* The four interactive front ends of kconfig as one specification: a user *)
(* starts one of them, and all have to keep the same promises about values *)
(* and files.                                                              *)
(***************************************************************************)
EXTENDS KconfigText, KconfigGtk, KconfigQt

FrontendsInit == SessionInit /\ win = NoWindow
FrontendsNext == (TextKeys /\ UNCHANGED win) \/ WindowNext \/ GtkNext \/ QtNext
FrontendsSpec == FrontendsInit /\ [][FrontendsNext]_winVars
=============================================================================
