----------------------------- MODULE ConfFiles -----------------------------
(***************************************************************************)
(* What conf does to the files it writes (support/kconfig/confdata.c),     *)
(* whatever the configuration language makes of them: each step may have   *)
(* any lines to write.  conf may be killed at any moment and be run again. *)
(***************************************************************************)
EXTENDS Naturals, Sequences

CONSTANTS Name, Setting

Line == Name \X Setting
Missing == <<>>

VARIABLES
    at,         \* "off", "busy", or what conf does next to the files
    config,     \* .config, in a sequence of one, or Missing
    old,        \* .config.old, the same
    auto,       \* auto.conf
    header,     \* autoconf.h
    lines,      \* what conf will write
    todo,       \* the headers that it has still to touch
    touched     \* those touched since auto.conf was replaced

kept == <<config, old>>
generated == <<auto, header, touched>>
files == <<kept, generated>>
fileVars == <<at, files, lines, todo>>

(* The names of the lines that are in one of two files only.               *)
Changed(f, g) == {line[1] : line \in (f \ g) \cup (g \ f)}

FilesInit ==
    /\ at = "off" /\ lines = {} /\ todo = {} /\ touched = {}
    /\ config \in Seq(SUBSET Line) /\ Len(config) <= 1 /\ old = Missing
    /\ auto = {} /\ header = {}

(* conf reads, asks and calculates; it may have nothing to write.          *)
Begin == at = "off" /\ at' \in {"busy", "save"} /\ UNCHANGED <<files, lines, todo>>
Decide == at = "busy" /\ at' \in {"save", "autoconf", "off"} /\ UNCHANGED <<files, lines, todo>>

(* conf_write: a whole temporary file, then two renames.                   *)
WriteTmp ==
    /\ at = "save" /\ at' = "written"
    /\ lines' \in SUBSET Line
    /\ UNCHANGED <<files, todo>>
RenameOld ==
    /\ at = "written" /\ at' = "renamed"
    /\ config' = Missing /\ old' = IF config = Missing THEN old ELSE config
    /\ UNCHANGED <<generated, lines, todo>>
Rename ==
    /\ at = "renamed" /\ at' \in {"autoconf", "off"}
    /\ config' = <<lines>>
    /\ lines' \in {lines, {}}
    /\ UNCHANGED <<old, generated, todo>>

(* conf_write_autoconf: the headers of all that changes, the other files,  *)
(* and auto.conf last.                                                     *)
SplitConfig ==
    /\ at = "autoconf" /\ at' = "touch"
    /\ lines' \in SUBSET Line
    /\ todo' \in SUBSET Name /\ Changed(auto, lines') \subseteq todo'
    /\ UNCHANGED files
Touch ==
    /\ at = "touch"
    /\ \E s \in todo : todo' = todo \ {s} /\ touched' = touched \cup {s}
    /\ UNCHANGED <<at, kept, auto, header, lines>>
AutoHeader ==
    /\ at = "touch" /\ todo = {} /\ at' = "header"
    /\ header' = lines
    /\ UNCHANGED <<kept, auto, touched, lines, todo>>
AutoConf ==
    /\ at = "header" /\ at' = "off"
    /\ auto' = lines /\ touched' = {} /\ lines' = {}
    /\ UNCHANGED <<kept, header, todo>>

Kill == at # "off" /\ at' = "off" /\ lines' = {} /\ todo' = {} /\ UNCHANGED files

FilesNext ==
    \/ Begin \/ Decide \/ WriteTmp \/ RenameOld \/ Rename
    \/ SplitConfig \/ Touch \/ AutoHeader \/ AutoConf \/ Kill
FilesSpec == FilesInit /\ [][FilesNext]_fileVars

-----------------------------------------------------------------------------

(* The newest configuration at hand, .config or else .config.old, is       *)
(* replaced only by one that has been written to its end, wherever conf is *)
(* killed and whatever runs follow (conf_write).                           *)
Newest == IF config # Missing THEN config ELSE old
ConfigKept == [][Newest' # Newest => at = "renamed" /\ Newest' = <<lines>>]_fileVars

(* "This must be the last step": when auto.conf is replaced, the header of *)
(* every symbol whose line in it changes has been touched since the last   *)
(* time, also when conf was killed in between and when Config.in files     *)
(* have changed, but for a change of the symbol's type; and autoconf.h has *)
(* the same lines (conf_write_autoconf).                                   *)
HeadersTouched ==
    [][auto' # auto => Changed(auto, auto') \subseteq touched /\ auto' = header]_fileVars
=============================================================================
