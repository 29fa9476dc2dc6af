------------------------------- MODULE Board -------------------------------
(***************************************************************************)
(* The scripts of this repository around buildroot: motd_script.sh gives   *)
(* a build its number, build_buildroot.sh builds the image, make_release.sh *)
(* puts it into a release, burn_sd.sh writes it to a card, and on the      *)
(* board expand_rootfs.sh lets the file system fill the card.  One script  *)
(* runs at a time; each may be killed, and power may fail, at any moment;  *)
(* commands fail, and the scripts go on.                                   *)
(*                                                                         *)
(* buildroot's part: the patch step of one package (Patches), the copy of  *)
(* the overlay to the target directory, the root file system, and the card *)
(* image.  An image stands for the version in its /etc/motd.               *)
(***************************************************************************)
EXTENDS Patches

CONSTANT MaxVersion     \* bound on the build numbers

ASSUME BoardAssumption == MaxVersion \in Nat

NoVersion == 0

VARIABLES
    counter,    \* the file `build'; NoVersion when it is empty
    motd,       \* the version in the overlay's motd
    given,      \* the versions that motd has had
    wiped,      \* whether the counter has ever been lost
    job,        \* the script that runs, the command it is at, its number, and
                \* whether one of its commands has failed
    output,     \* versions in the target directory, rootfs.ext4 and sdcard.img
    settled,    \* the last make was not disturbed, nor was the numbering since
    archives,   \* [version -> the image in its archive among the images]
    releases,   \* [version -> the image in its archive], once it is moved
    card,       \* the card: its image, partition, file system, the enable file
    board       \* the command that expand_rootfs.sh is at

numbering == <<counter, motd, given, wiped>>
package == <<tree, recipe>>
images == <<output, archives>>
host == <<numbering, package, job, images, settled, releases, faults>>
vars == <<host, card, board>>

Built == [target |-> NoVersion, rootfs |-> NoVersion, sdcard |-> NoVersion]
NoJob == [script |-> "none", at |-> "none", n |-> NoVersion, status |-> "ok"]
NoRelease == [v \in {} |-> NoVersion]
NoCard == [image |-> NoVersion, part |-> "small", fs |-> "small", enable |-> "no", hurt |-> FALSE]

Init ==
    /\ counter = 1 /\ motd = 1 /\ given = {1} /\ wiped = FALSE
    /\ job = NoJob /\ output = Built /\ settled = FALSE
    /\ archives = NoRelease /\ releases = NoRelease
    /\ contents \in Layouts /\ sources = <<>> /\ list = <<>> /\ patched = FALSE
    /\ call = 0 /\ todo = <<>> /\ patching = <<>> /\ faults = 0
    /\ card = NoCard /\ board = "off"

-----------------------------------------------------------------------------
(* Scripts: the commands of each, in order.                                *)

(* Mutant of Script: the number is written down when it has been used.     *)
ScriptCountsLast(s) ==
    CASE s = "build" -> <<"count", "reread", "motd", "version", "open", "write", "clean", "cleaned",
                          "patch", "finalize", "rootfs", "image">>
      [] s = "make" -> <<"patch", "finalize", "rootfs", "image">>
      [] s = "release" -> <<"name", "tar", "move">>

(* Mutant of Script: numbering comes after make, as it once did.           *)
ScriptNumbersLast(s) ==
    CASE s = "build" -> <<"clean", "cleaned", "patch", "finalize", "rootfs", "image",
                          "count", "open", "write", "reread", "motd", "version">>
      [] s = "make" -> <<"patch", "finalize", "rootfs", "image">>
      [] s = "release" -> <<"name", "tar", "move">>

Script(s) ==
    CASE s = "build" -> <<"count", "open", "write", "reread", "motd", "version", "clean", "cleaned",
                          "patch", "finalize", "rootfs", "image">>
      [] s = "make" -> <<"patch", "finalize", "rootfs", "image">>
      [] s = "release" -> <<"name", "tar", "move">>

Start(s) ==
    /\ job = NoJob
    /\ s = "build" => counter < MaxVersion
    /\ job' = [NoJob EXCEPT !.script = s, !.at = Head(Script(s))]
    /\ settled' = (settled /\ s = "release")
    /\ UNCHANGED <<numbering, package, images, releases, faults>>

Place(at) == CHOOSE i \in DOMAIN Script(job.script) : Script(job.script)[i] = at
Onward(j, k) ==
    LET i == Place(job.at) + k
    IN  IF i > Len(Script(job.script)) THEN NoJob ELSE [j EXCEPT !.at = Script(job.script)[i]]
After(j) == Onward(j, 1)
Step(at) == job.at = at /\ job' = After(job)

(* The command fails, and with the second one what depends on it; the      *)
(* script goes on.                                                         *)
Hurt == [job EXCEPT !.status = "failed"]
Fails(at) == job.at = at /\ Fault /\ job' = After(Hurt)
FailsBoth(at) == job.at = at /\ Fault /\ job' = Onward(Hurt, 2)

-----------------------------------------------------------------------------
(* motd_script.sh.  An empty counter, or one that cat does not give,       *)
(* counts as 0.                                                            *)

Count ==
    /\ job.at = "count"
    /\ job' = After([job EXCEPT !.n = counter + 1])
    /\ UNCHANGED <<numbering, package, images, settled, releases, faults>>

CountFails ==
    /\ job.at = "count" /\ Fault
    /\ job' = After([Hurt EXCEPT !.n = 1])
    /\ wiped' = TRUE
    /\ UNCHANGED <<counter, motd, given, package, images, settled, releases>>

(* The file is empty from the moment it is opened; when it cannot be       *)
(* opened it stays as it is.                                               *)
OpenBuild ==
    /\ Step("open") /\ counter' = NoVersion
    /\ UNCHANGED <<motd, given, wiped, package, images, settled, releases, faults>>

WriteBuild ==
    /\ Step("write") /\ counter' = job.n
    /\ UNCHANGED <<motd, given, wiped, package, images, settled, releases, faults>>

BuildFails ==
    /\ \/ FailsBoth("open") /\ UNCHANGED wiped
       \/ Fails("write") /\ wiped' = TRUE
    /\ UNCHANGED <<counter, motd, given, package, images, settled, releases>>

(* The number is read anew from the counter, or not at all.                *)
Reread ==
    /\ job.at = "reread"
    /\ \/ job' = After([job EXCEPT !.n = counter]) /\ UNCHANGED faults
       \/ job' = After([Hurt EXCEPT !.n = NoVersion]) /\ Fault
    /\ UNCHANGED <<numbering, package, images, settled, releases>>

OpenMotd ==
    /\ Step("motd") /\ motd' = NoVersion
    /\ UNCHANGED <<counter, given, wiped, package, images, settled, releases, faults>>

WriteVersion ==
    /\ Step("version")
    /\ motd' = job.n /\ given' = given \cup ({job.n} \ {NoVersion})
    /\ UNCHANGED <<counter, wiped, package, images, settled, releases, faults>>

MotdFails ==
    /\ FailsBoth("motd") \/ Fails("version")
    /\ UNCHANGED <<numbering, package, images, settled, releases>>

-----------------------------------------------------------------------------
(* make clean, and make.                                                   *)

(* The directories of what is built go first, the build directory later;   *)
(* the package in it is then extracted anew.                               *)
CleanOutput ==
    /\ Step("clean") /\ output' = Built /\ archives' = NoRelease
    /\ UNCHANGED <<numbering, package, settled, releases, faults>>

CleanBuild ==
    /\ Step("cleaned") /\ Extracted
    /\ UNCHANGED <<numbering, recipe, images, settled, releases, faults>>

(* make stops, and the script with it.                                     *)
MakeFails ==
    /\ job.at \in {"finalize", "rootfs"} /\ Fault
    /\ job' = NoJob
    /\ UNCHANGED <<numbering, package, images, settled, releases>>

StartPatching ==
    /\ job.at = "patch" /\ call = 0 /\ ~patched
    /\ Call(1)
    /\ UNCHANGED <<numbering, job, images, settled, releases>>

GoOnPatching ==
    /\ job.at = "patch" /\ call # 0
    /\ ApplyPatches
    /\ job' = IF call' = 0 /\ ~patched' THEN NoJob ELSE job
    /\ UNCHANGED <<numbering, images, settled, releases>>

HasPatched ==
    /\ patched /\ Step("patch")
    /\ UNCHANGED <<numbering, package, images, settled, releases, faults>>

(* target-finalize copies the overlay.                                     *)
Finalize ==
    /\ Step("finalize") /\ output' = [output EXCEPT !.target = motd]
    /\ UNCHANGED <<numbering, package, archives, settled, releases, faults>>

Rootfs ==
    /\ Step("rootfs") /\ output' = [output EXCEPT !.rootfs = output.target]
    /\ UNCHANGED <<numbering, package, archives, settled, releases, faults>>

(* post-image.sh: the card image.                                          *)
Image ==
    /\ Step("image") /\ output' = [output EXCEPT !.sdcard = output.rootfs]
    /\ settled' = TRUE
    /\ UNCHANGED <<numbering, package, archives, releases, faults>>

(* When genimage fails, its status is lost, and make succeeds.             *)
NoImage ==
    /\ Step("image") /\ Fault
    /\ UNCHANGED <<numbering, package, images, settled, releases>>

-----------------------------------------------------------------------------
(* make_release.sh.                                                        *)

Name ==
    /\ job.at = "name"
    /\ \/ job' = After([job EXCEPT !.n = motd]) /\ UNCHANGED faults
       \/ job' = After([Hurt EXCEPT !.n = NoVersion]) /\ Fault
    /\ UNCHANGED <<numbering, package, images, settled, releases>>

Put(f, v, x) == [w \in DOMAIN f \cup {v} |-> IF w = v THEN x ELSE f[w]]

(* The archive is made among the images.  Without images, it is one of     *)
(* nothing; one that is cut short is taken for that.                       *)
Archive ==
    /\ Step("tar") /\ archives' = Put(archives, job.n, output.sdcard)
    /\ UNCHANGED <<numbering, package, output, settled, releases, faults>>

ArchiveFails ==
    /\ Fails("tar")
    /\ archives' \in {archives, Put(archives, job.n, NoVersion)}
    /\ UNCHANGED <<numbering, package, output, settled, releases>>

(* What there is under the name, be it from an earlier run, is moved.      *)
Move ==
    /\ Step("move") /\ job.n \in DOMAIN archives
    /\ releases' = Put(releases, job.n, archives[job.n])
    /\ archives' = [v \in DOMAIN archives \ {job.n} |-> archives[v]]
    /\ UNCHANGED <<numbering, package, output, settled, faults>>

MoveFails ==
    /\ Fails("move") \/ (Step("move") /\ job.n \notin DOMAIN archives /\ UNCHANGED faults)
    /\ UNCHANGED <<numbering, package, images, settled, releases>>

(* The script that runs is killed.                                         *)
Kill ==
    /\ job # NoJob /\ Fault
    /\ job' = NoJob
    /\ IF call = 0 THEN UNCHANGED package ELSE Cut
    /\ wiped' = (wiped \/ counter = NoVersion)
    /\ \/ UNCHANGED archives
       \/ job.at = "tar" /\ archives' = Put(archives, job.n, NoVersion)
    /\ UNCHANGED <<counter, motd, given, output, settled, releases>>

-----------------------------------------------------------------------------
(* The card, and the board.                                                *)

(* burn_sd.sh, Main-Image; or cut off in the middle, with no image on it.  *)
Burn ==
    /\ job = NoJob /\ board = "off" /\ output.sdcard # NoVersion
    /\ \/ card' = [NoCard EXCEPT !.image = output.sdcard, !.enable = "yes"] /\ UNCHANGED faults
       \/ card' = NoCard /\ Fault
    /\ UNCHANGED <<numbering, package, job, images, settled, releases, board>>

Boot ==
    /\ board = "off" /\ card.image # NoVersion
    /\ board' = "on"
    /\ UNCHANGED <<host, card>>

(* Mutant of Commands: the file system first, as it once was.              *)
CommandsSwapped == <<"resize", "rm", "fdisk">>

(* expand_rootfs.sh, which looks for its enable file first.                *)
Commands == <<"fdisk", "rm", "resize">>

StartExpand ==
    /\ board = "on" /\ card.enable = "yes"
    /\ board' = Head(Commands)
    /\ UNCHANGED <<host, card>>

Command(c) ==
    LET i == CHOOSE k \in DOMAIN Commands : Commands[k] = c
    IN  /\ board = c
        /\ board' = IF i < Len(Commands) THEN Commands[i + 1] ELSE "on"
Works(c) == Command(c) /\ UNCHANGED host
FailsAt(c) ==
    /\ Command(c) /\ Fault
    /\ card' = [card EXCEPT !.hurt = (@ \/ c # "rm")]
    /\ UNCHANGED <<numbering, package, job, images, settled, releases>>

Fdisk == Works("fdisk") /\ card' = [card EXCEPT !.part = "large"]
(* The disk hears of it later.                                             *)
Rm == Works("rm") /\ card' = [card EXCEPT !.enable = "unsynced"]
(* The file system grows to the size of the partition.                     *)
Resize == Works("resize") /\ card' = [card EXCEPT !.fs = card.part]
(* When rm fails, the script will run again.                               *)
CommandFails == FailsAt("fdisk") \/ FailsAt("rm") \/ FailsAt("resize")

Reboot ==
    /\ board = "on"
    /\ board' = "off"
    /\ card' = [card EXCEPT !.enable = IF @ = "unsynced" THEN "no" ELSE @]
    /\ UNCHANGED host

(* A file whose removal has not reached the disk is there again.           *)
PowerCut ==
    /\ board # "off" /\ Fault
    /\ board' = "off"
    /\ \E back \in IF card.enable = "unsynced" THEN {"yes", "no"} ELSE {card.enable} :
          card' = [card EXCEPT !.enable = back, !.hurt = (@ \/ board # "on")]
    /\ UNCHANGED <<numbering, package, job, images, settled, releases>>

-----------------------------------------------------------------------------

Numbers ==
    \/ Count \/ CountFails \/ OpenBuild \/ WriteBuild \/ BuildFails \/ Reread
    \/ OpenMotd \/ WriteVersion \/ MotdFails
Makes ==
    \/ CleanOutput \/ CleanBuild \/ MakeFails \/ StartPatching \/ GoOnPatching
    \/ HasPatched \/ Finalize \/ Rootfs \/ Image \/ NoImage
Releases == Name \/ Archive \/ ArchiveFails \/ Move \/ MoveFails
Scripts == (\E s \in {"build", "make", "release"} : Start(s)) \/ Numbers \/ Makes \/ Releases \/ Kill
Expands == StartExpand \/ Fdisk \/ Rm \/ Resize \/ CommandFails

Next ==
    \/ Scripts /\ UNCHANGED <<card, board>>
    \/ Burn \/ Boot \/ Expands \/ Reboot \/ PowerCut

Spec == Init /\ [][Next]_vars

-----------------------------------------------------------------------------

(* A number that motd gets is greater than all that it has had, wherever   *)
(* builds were killed and whatever failed (README.md:32), with two         *)
(* exceptions: the counter was once lost, between its truncation and the   *)
(* writing of the number or by a cat that failed; and a build that could   *)
(* not write the counter reads the last number again and gives that        *)
(* (motd_script.sh:7-9, 17, 54), but never a smaller one.                  *)
VersionsGrow ==
    [][motd' \notin {motd, NoVersion} /\ ~wiped =>
          \A v \in given : v < motd' \/ (v = motd' /\ job.status = "failed")]_vars

(* A release has the image of the version that it is named after, when the *)
(* last make came to its end undisturbed and no command of the release     *)
(* itself failed, whatever releases before it left among the images        *)
(* (make_release.sh:17, 33-34, 95).                                        *)
ReleaseIsTrue ==
    [][settled /\ job.status = "ok" /\ releases' # releases => releases'[job.n] = job.n]_vars

(* Once the enable file is gone, the file system fills the card, unless a  *)
(* command failed or power was cut meanwhile (expand_rootfs.sh:11-30).     *)
ExpandedWhenDone ==
    board = "on" /\ card.enable # "yes" /\ ~card.hurt => card.fs = "large"
=============================================================================
