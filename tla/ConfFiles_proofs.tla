-------------------------- MODULE ConfFiles_proofs --------------------------
(***************************************************************************)
(* For any names, settings and number of runs and kills: the configuration *)
(* at hand is whole, and no changed line of auto.conf goes unheard.        *)
(***************************************************************************)
EXTENDS ConfFiles, TLAPS

-----------------------------------------------------------------------------
(* The newest configuration at hand.                                       *)

LEMMA KeepsFiles ==
    ASSUME FilesNext
    PROVE  UNCHANGED kept \/ RenameOld \/ Rename
BY DEF FilesNext, Begin, Decide, WriteTmp, SplitConfig, Touch, AutoHeader, AutoConf, Kill, files, generated

(* .config or else .config.old is replaced only by a whole file: the first *)
(* rename keeps what is at hand, wherever conf is killed, and the second   *)
(* brings the lines that were written (conf_write).                        *)
THEOREM ConfigurationsSurvive == FilesSpec => ConfigKept
<1> DEFINE Whole == Newest' # Newest => at = "renamed" /\ Newest' = <<lines>>
<1>1. [FilesNext]_fileVars => [Whole]_fileVars
  <2> SUFFICES ASSUME FilesNext PROVE Whole
    OBVIOUS
  <2>1. CASE UNCHANGED kept
    BY <2>1 DEF kept, Newest
  <2>2. CASE RenameOld
    BY <2>2 DEF RenameOld, Newest, Missing
  <2>3. CASE Rename
    BY <2>3 DEF Rename, Newest, Missing
  <2> QED
    BY <2>1, <2>2, <2>3, KeepsFiles
<1> QED
  BY <1>1, PTL DEF FilesSpec, ConfigKept

-----------------------------------------------------------------------------
(* What changes and has not been touched is still on conf's list; a kill   *)
(* loses the list, but neither what was touched nor the auto.conf that the *)
(* next run compares with.                                                 *)

Heard ==
    /\ at = "touch" => Changed(auto, lines) \subseteq touched \cup todo
    /\ at = "header" => Changed(auto, lines) \subseteq touched /\ header = lines

LEMMA InitHeard == FilesInit => Heard
BY DEF FilesInit, Heard

LEMMA StepHeard == Heard /\ [FilesNext]_fileVars => Heard'
<1> SUFFICES ASSUME Heard, [FilesNext]_fileVars PROVE Heard'
  OBVIOUS
<1>1. CASE Begin \/ Decide \/ Kill \/ WriteTmp \/ RenameOld \/ Rename \/ AutoConf
  <2>1. at' \notin {"touch", "header"}
    BY <1>1 DEF Begin, Decide, Kill, WriteTmp, RenameOld, Rename, AutoConf
  <2> QED
    BY <2>1 DEF Heard
<1>2. CASE SplitConfig
  <2>1. at' = "touch" /\ auto' = auto /\ touched' = touched /\ Changed(auto, lines') \subseteq todo'
    BY <1>2 DEF SplitConfig, files, generated
  <2> QED
    BY <2>1 DEF Heard
<1>3. CASE Touch
  <2>1. PICK s \in todo : todo' = todo \ {s} /\ touched' = touched \cup {s}
    BY <1>3 DEF Touch
  <2>2. at = "touch" /\ at' = "touch" /\ auto' = auto /\ lines' = lines
    BY <1>3 DEF Touch
  <2> QED
    BY <2>1, <2>2 DEF Heard
<1>4. CASE AutoHeader
  <2>1. /\ at = "touch" /\ todo = {} /\ at' = "header" /\ header' = lines
        /\ UNCHANGED <<auto, touched, lines>>
    BY <1>4 DEF AutoHeader
  <2> QED
    BY <2>1 DEF Heard
<1>5. CASE UNCHANGED fileVars
  BY <1>5 DEF Heard, fileVars, files, generated
<1> QED
  BY <1>1, <1>2, <1>3, <1>4, <1>5 DEF FilesNext

(* When auto.conf is replaced, the header of every symbol whose line in it *)
(* changes has been touched since the last time, by this run or by ones    *)
(* that were killed, and autoconf.h is of the same lines                   *)
(* (conf_split_config, conf_write_autoconf).                               *)
THEOREM HeadersAreTouched == FilesSpec => HeadersTouched
<1> DEFINE Told == auto' # auto => Changed(auto, auto') \subseteq touched /\ auto' = header
<1>1. Heard /\ [FilesNext]_fileVars => [Told]_fileVars
  <2> SUFFICES ASSUME Heard, FilesNext, auto' # auto
               PROVE  Changed(auto, auto') \subseteq touched /\ auto' = header
    OBVIOUS
  <2>1. AutoConf
    BY DEF FilesNext, Begin, Decide, WriteTmp, RenameOld, Rename, SplitConfig, Touch, AutoHeader, Kill,
           files, generated
  <2> QED
    BY <2>1 DEF AutoConf, Heard
<1> QED
  BY <1>1, InitHeard, StepHeard, PTL DEF FilesSpec, HeadersTouched
=============================================================================
