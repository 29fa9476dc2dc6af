---------------------------- MODULE Board_proofs ----------------------------
(***************************************************************************)
(* For any number of builds, faults and layouts of patches: the numbers of *)
(* the builds grow, a release holds the image that it is named after, and  *)
(* the enable file goes when the file system fills the card.               *)
(***************************************************************************)
EXTENDS Board, TLAPS

-----------------------------------------------------------------------------
(* The commands of the scripts and what follows each of them.              *)

Ats ==
    {"none", "count", "open", "write", "reread", "motd", "version", "clean", "cleaned",
     "patch", "finalize", "rootfs", "image", "name", "tar", "move"}

Job == [script : {"none", "build", "make", "release"}, at : Ats, n : Nat, status : {"ok", "failed"}]

JobOK ==
    /\ job \in Job
    /\ job.script = "none" => job.at = "none"
    /\ job.script = "build" =>
           job.at \in {"count", "open", "write", "reread", "motd", "version", "clean", "cleaned",
                      "patch", "finalize", "rootfs", "image"}
    /\ job.script = "make" => job.at \in {"patch", "finalize", "rootfs", "image"}
    /\ job.script = "release" => job.at \in {"name", "tar", "move"}

LEMMA PlaceIs ==
    ASSUME NEW i \in DOMAIN Script(job.script),
           \A j \in DOMAIN Script(job.script) :
               Script(job.script)[j] = Script(job.script)[i] => j = i
    PROVE  Place(Script(job.script)[i]) = i
BY DEF Place

To(j, at) == [j EXCEPT !.at = at]

LEMMA Follows ==
    ASSUME JobOK, NEW j
    PROVE  /\ job.at = "count" => After(j) = To(j, "open")
           /\ job.at = "open" => After(j) = To(j, "write")
           /\ job.at = "write" => After(j) = To(j, "reread")
           /\ job.at = "reread" => After(j) = To(j, "motd")
           /\ job.at = "motd" => After(j) = To(j, "version")
           /\ job.at = "version" => After(j) = To(j, "clean")
           /\ job.at = "clean" => After(j) = To(j, "cleaned")
           /\ job.at = "cleaned" => After(j) = To(j, "patch")
           /\ job.at = "patch" => After(j) = To(j, "finalize")
           /\ job.at = "finalize" => After(j) = To(j, "rootfs")
           /\ job.at = "rootfs" => After(j) = To(j, "image")
           /\ job.at = "name" => After(j) = To(j, "tar")
           /\ job.at = "tar" => After(j) = To(j, "move")
           /\ job.at \in {"image", "move"} => After(j) = NoJob
           /\ job.at = "open" => Onward(j, 2) = To(j, "reread")
           /\ job.at = "motd" => Onward(j, 2) = To(j, "clean")
<1> DEFINE s == Script(job.script)
<1>1. CASE job.script = "build"
  <2>1. s = <<"count", "open", "write", "reread", "motd", "version", "clean", "cleaned",
              "patch", "finalize", "rootfs", "image">>
    BY <1>1 DEF Script
  <2>2. Len(s) = 12 /\ DOMAIN s = 1 .. 12
    BY <2>1
  <2>3. \A i, k \in DOMAIN s : s[i] = s[k] => i = k
    BY <2>1, <2>2
  <2>4. \A i \in DOMAIN s : Place(s[i]) = i
    BY <2>3, PlaceIs
  <2>5. PICK i \in DOMAIN s : s[i] = job.at
    BY <1>1, <2>1, <2>2 DEF JobOK
  <2>6. Place(job.at) = i
    BY <2>4, <2>5
  <2> QED
    BY <2>1, <2>2, <2>5, <2>6 DEF After, Onward, To
<1>2. CASE job.script = "make"
  <2>1. s = <<"patch", "finalize", "rootfs", "image">>
    BY <1>2 DEF Script
  <2>2. Len(s) = 4 /\ DOMAIN s = 1 .. 4
    BY <2>1
  <2>3. \A i, k \in DOMAIN s : s[i] = s[k] => i = k
    BY <2>1, <2>2
  <2>4. \A i \in DOMAIN s : Place(s[i]) = i
    BY <2>3, PlaceIs
  <2>5. PICK i \in DOMAIN s : s[i] = job.at
    BY <1>2, <2>1, <2>2 DEF JobOK
  <2>6. Place(job.at) = i
    BY <2>4, <2>5
  <2> QED
    BY <2>1, <2>2, <2>5, <2>6 DEF After, Onward, To
<1>3. CASE job.script = "release"
  <2>1. s = <<"name", "tar", "move">>
    BY <1>3 DEF Script
  <2>2. Len(s) = 3 /\ DOMAIN s = 1 .. 3
    BY <2>1
  <2>3. \A i, k \in DOMAIN s : s[i] = s[k] => i = k
    BY <2>1, <2>2
  <2>4. \A i \in DOMAIN s : Place(s[i]) = i
    BY <2>3, PlaceIs
  <2>5. PICK i \in DOMAIN s : s[i] = job.at
    BY <1>3, <2>1, <2>2 DEF JobOK
  <2>6. Place(job.at) = i
    BY <2>4, <2>5
  <2> QED
    BY <2>1, <2>2, <2>5, <2>6 DEF After, Onward, To
<1> QED
  BY <1>1, <1>2, <1>3 DEF JobOK, Job

-----------------------------------------------------------------------------
(* The inductive invariant of the scripts on the host.                     *)

TypeOK ==
    /\ JobOK
    /\ counter \in Nat /\ motd \in Nat /\ given \subseteq Nat
    /\ wiped \in BOOLEAN /\ settled \in BOOLEAN
    /\ output \in [target : Nat, rootfs : Nat, sdcard : Nat]

(* The number of a build is written to the counter before it is given; the *)
(* counter is empty in between.  What is read again is the number, or the  *)
(* last one when the counter could not be written.                         *)
Numbered ==
    /\ job.at = "write" => counter = NoVersion
    /\ ~wiped =>
        /\ job.at # "write" => \A v \in given : v <= counter
        /\ job.at = "write" => \A v \in given : v < job.n
        /\ job.at = "open" => job.n = counter + 1
        /\ job.at = "reread" /\ job.status = "ok" => \A v \in given : v < counter
        /\ job.at \in {"motd", "version"} =>
              /\ job.n \in {counter, NoVersion}
              /\ job.status = "ok" => \A v \in given : v < job.n

(* motd stays as it is from the copy of the overlay on.                    *)
Released ==
    /\ job.at = "rootfs" => output.target = motd
    /\ job.at = "image" => output.rootfs = motd
    /\ settled => output.sdcard = motd /\ job.script \in {"none", "release"}
    /\ job.at \in {"tar", "move"} /\ job.status = "ok" => job.n = motd
    /\ job.at = "move" /\ settled /\ job.status = "ok" =>
          (job.n \in DOMAIN archives => archives[job.n] = motd)

HostInv == TypeOK /\ Numbered /\ Released

LEMMA InitHost == Init => HostInv
<1> SUFFICES ASSUME Init PROVE HostInv
  OBVIOUS
<1>1. job \in Job
  <2>1. NoJob \in Job
    BY DEF NoJob, Job, Ats, NoVersion
  <2> QED
    BY <2>1 DEF Init
<1>2. JobOK
  BY <1>1 DEF Init, JobOK, NoJob
<1>3. TypeOK
  <2>1. 1 \in Nat /\ {1} \subseteq Nat /\ Built \in [target : Nat, rootfs : Nat, sdcard : Nat]
    BY DEF Built, NoVersion
  <2> QED
    BY <1>2, <2>1 DEF Init, TypeOK
<1>4. Numbered
  BY DEF Init, Numbered, NoJob
<1>5. Released
  BY DEF Init, Released, NoJob
<1> QED
  BY <1>3, <1>4, <1>5 DEF HostInv

LEMMA NumbersHost == HostInv /\ Numbers => HostInv'
<1> SUFFICES ASSUME HostInv, Numbers PROVE HostInv'
  OBVIOUS
<1> USE DEF HostInv, TypeOK, JobOK, Job, Ats, Numbered, Released, NoVersion, package
<1>0. counter + 1 \in Nat /\ 1 \in Nat /\ 0 \in Nat
  OBVIOUS
<1>1. CASE Count
  <2>1. job' = To([job EXCEPT !.n = counter + 1], "open")
    BY <1>1, Follows DEF Count
  <2>2. /\ job' \in Job /\ job'.n = counter + 1 /\ job'.at = "open"
        /\ job'.script = job.script
    BY <1>0, <2>1 DEF To
  <2>3. job.at = "count" /\ UNCHANGED <<counter, motd, given, wiped, output, archives, settled>>
    BY <1>1 DEF Count, numbering, images
  <2> QED
    BY <2>2, <2>3
<1>2. CASE CountFails
  <2>1. job' = To([Hurt EXCEPT !.n = 1], "open")
    BY <1>2, Follows DEF CountFails
  <2>2. job' \in Job /\ job'.at = "open" /\ job'.script = job.script
    BY <1>0, <2>1 DEF To, Hurt
  <2>3. job.at = "count" /\ wiped' = TRUE /\ UNCHANGED <<counter, motd, given, output, archives, settled>>
    BY <1>2 DEF CountFails, images
  <2> QED
    BY <2>2, <2>3
<1>3. CASE OpenBuild
  <2>1. job.at = "open" /\ job' = To(job, "write")
    BY <1>3, Follows DEF OpenBuild, Step
  <2>2. /\ job' \in Job /\ job'.at = "write" /\ job'.script = job.script
        /\ job'.n = job.n /\ job'.status = job.status
    BY <2>1 DEF To
  <2>3. counter' = 0 /\ UNCHANGED <<motd, given, wiped, output, archives, settled>>
    BY <1>3 DEF OpenBuild, images
  <2>4. ~wiped => \A v \in given : v < job.n
    BY <1>0, <2>1
  <2> QED
    BY <1>0, <2>1, <2>2, <2>3, <2>4
<1>4. CASE WriteBuild
  BY <1>4, Follows DEF WriteBuild, Step, To, images
<1>5. CASE BuildFails
  <2>1. PICK a \in {"open", "write"} :
            /\ job.at = a /\ job' = To(Hurt, "reread")
            /\ IF a = "open" THEN wiped' = wiped ELSE wiped' = TRUE
    BY <1>5, Follows DEF BuildFails, Fails, FailsBoth
  <2>2. /\ job' \in Job /\ job'.at = "reread" /\ job'.script = job.script
        /\ job'.n = job.n /\ job'.status = "failed"
    BY <2>1 DEF To, Hurt
  <2>3. UNCHANGED <<counter, motd, given, output, archives, settled>>
    BY <1>5 DEF BuildFails, images
  <2> QED
    BY <2>1, <2>2, <2>3
<1>6. CASE Reread
  <2>1. job.at = "reread" /\ UNCHANGED <<counter, motd, given, wiped, output, archives, settled>>
    BY <1>6 DEF Reread, numbering, images
  <2>2. CASE job' = After([job EXCEPT !.n = counter])
    <3>1. job' = To([job EXCEPT !.n = counter], "motd")
      BY <2>1, <2>2, Follows
    <3>2. /\ job' \in Job /\ job'.n = counter /\ job'.at = "motd"
          /\ job'.status = job.status /\ job'.script = job.script
      BY <1>0, <3>1 DEF To
    <3> QED
      BY <2>1, <3>2
  <2>3. CASE job' = After([Hurt EXCEPT !.n = NoVersion])
    <3>1. job' = To([Hurt EXCEPT !.n = 0], "motd")
      BY <2>1, <2>3, Follows
    <3>2. /\ job' \in Job /\ job'.n = 0 /\ job'.at = "motd"
          /\ job'.status = "failed" /\ job'.script = job.script
      BY <1>0, <3>1 DEF To, Hurt
    <3> QED
      BY <2>1, <3>2
  <2> QED
    BY <1>6, <2>2, <2>3 DEF Reread
<1>7. CASE OpenMotd
  <2>1. job.at = "motd" /\ job' = To(job, "version")
    BY <1>7, Follows DEF OpenMotd, Step
  <2>2. /\ job' \in Job /\ job'.at = "version" /\ job'.script = job.script
        /\ job'.n = job.n /\ job'.status = job.status
    BY <2>1 DEF To
  <2>3. motd' = 0 /\ UNCHANGED <<counter, given, wiped, output, archives, settled>>
    BY <1>7 DEF OpenMotd, images
  <2>4. job.script = "build"
    BY <2>1
  <2> QED
    BY <1>0, <2>1, <2>2, <2>3, <2>4
<1>8. CASE WriteVersion
  <2>1. job.at = "version" /\ job' = To(job, "clean")
    BY <1>8, Follows DEF WriteVersion, Step
  <2>2. /\ job' \in Job /\ job'.at = "clean" /\ job'.script = job.script
    BY <2>1 DEF To
  <2>3. /\ motd' = job.n /\ given' = given \cup ({job.n} \ {0})
        /\ UNCHANGED <<counter, wiped, output, archives, settled>>
    BY <1>8 DEF WriteVersion, images
  <2>4. given' \subseteq Nat /\ motd' \in Nat
    BY <2>3
  <2>5. ~wiped => \A v \in given' : v <= counter
    BY <2>1, <2>3
  <2>6. ~settled /\ job.script = "build"
    <3>1. job.script = "build"
      BY <2>1
    <3> QED
      BY <3>1
  <2>7. TypeOK'
    BY <2>2, <2>3, <2>4, <2>6
  <2>8. Numbered'
    BY <2>2, <2>3, <2>5
  <2>9. Released'
    BY <2>2, <2>3, <2>6
  <2> QED
    BY <2>7, <2>8, <2>9
<1>9. CASE MotdFails
  <2>1. job.at \in {"motd", "version"} /\ job' = To(Hurt, "clean")
    BY <1>9, Follows DEF MotdFails, Fails, FailsBoth
  <2>2. job' \in Job /\ job'.at = "clean" /\ job'.script = job.script
    BY <2>1 DEF To, Hurt
  <2>3. UNCHANGED <<counter, motd, given, wiped, output, archives, settled>>
    BY <1>9 DEF MotdFails, images, numbering
  <2>4. job.script = "build"
    BY <2>1
  <2> QED
    BY <2>1, <2>2, <2>3, <2>4
<1> QED
  BY <1>1, <1>2, <1>3, <1>4, <1>5, <1>6, <1>7, <1>8, <1>9 DEF Numbers

LEMMA MakesHost == HostInv /\ Makes => HostInv'
<1> SUFFICES ASSUME HostInv, Makes PROVE HostInv'
  OBVIOUS
<1> USE DEF HostInv, TypeOK, JobOK, Job, Ats, Numbered, Released, NoVersion, numbering, package, images
<1>1. CASE CleanOutput
  BY <1>1, Follows DEF CleanOutput, Step, To, Built
<1>2. CASE CleanBuild
  BY <1>2, Follows DEF CleanBuild, Step, To
<1>3. CASE MakeFails
  BY <1>3 DEF MakeFails, NoJob
<1>4. CASE StartPatching
  BY <1>4 DEF StartPatching
<1>5. CASE GoOnPatching
  BY <1>5 DEF GoOnPatching, NoJob
<1>6. CASE HasPatched
  BY <1>6, Follows DEF HasPatched, Step, To
<1>7. CASE Finalize
  BY <1>7, Follows DEF Finalize, Step, To
<1>8. CASE Rootfs
  BY <1>8, Follows DEF Rootfs, Step, To
<1>9. CASE Image
  BY <1>9, Follows DEF Image, Step, To, NoJob
<1>10. CASE NoImage
  BY <1>10, Follows DEF NoImage, Step, To, NoJob
<1> QED
  BY <1>1, <1>2, <1>3, <1>4, <1>5, <1>6, <1>7, <1>8, <1>9, <1>10 DEF Makes

LEMMA ReleasesHost == HostInv /\ Releases => HostInv'
<1> SUFFICES ASSUME HostInv, Releases PROVE HostInv'
  OBVIOUS
<1> USE DEF HostInv, TypeOK, JobOK, Job, Ats, Numbered, Released, NoVersion, numbering, images
<1>1. CASE Name
  <2>1. CASE job' = After([job EXCEPT !.n = motd])
    <3>1. job' = To([job EXCEPT !.n = motd], "tar")
      BY <1>1, <2>1, Follows DEF Name
    <3> QED
      BY <1>1, <3>1 DEF Name, To
  <2>2. CASE job' = After([Hurt EXCEPT !.n = NoVersion])
    <3>1. job' = To([Hurt EXCEPT !.n = NoVersion], "tar")
      BY <1>1, <2>2, Follows DEF Name
    <3> QED
      BY <1>1, <3>1 DEF Name, To, Hurt
  <2> QED
    BY <1>1, <2>1, <2>2 DEF Name
<1>2. CASE Archive
  <2>1. job' = To(job, "move") /\ job.at = "tar"
    BY <1>2, Follows DEF Archive, Step
  <2>2. archives'[job.n] = output.sdcard
    BY <1>2 DEF Archive, Put
  <2> QED
    BY <1>2, <2>1, <2>2 DEF Archive, To
<1>3. CASE ArchiveFails
  BY <1>3, Follows DEF ArchiveFails, Fails, Hurt, To
<1>4. CASE Move
  BY <1>4, Follows DEF Move, Step, To, NoJob
<1>5. CASE MoveFails
  BY <1>5, Follows DEF MoveFails, Fails, Step, To, NoJob
<1> QED
  BY <1>1, <1>2, <1>3, <1>4, <1>5 DEF Releases

LEMMA StepHost == HostInv /\ [Next]_vars => HostInv'
<1> SUFFICES ASSUME HostInv, [Next]_vars PROVE HostInv'
  OBVIOUS
<1> USE DEF HostInv, TypeOK, JobOK, Job, Ats, Numbered, Released, NoVersion, numbering, images
<1>1. ASSUME NEW s \in {"build", "make", "release"}, Start(s) PROVE HostInv'
  <2>1. Head(Script(s)) = IF s = "build" THEN "count" ELSE IF s = "make" THEN "patch" ELSE "name"
    BY <1>1 DEF Script
  <2> QED
    BY <1>1, <2>1 DEF Start, NoJob
<1>2. CASE Kill
  BY <1>2 DEF Kill, NoJob
<1>3. ASSUME UNCHANGED <<numbering, job, images, settled>> PROVE HostInv'
  BY <1>3
<1>4. CASE Burn
  BY <1>4, <1>3 DEF Burn
<1>5. CASE Boot \/ Reboot
  BY <1>5, <1>3 DEF Boot, Reboot, host
<1>6. CASE PowerCut
  BY <1>6, <1>3 DEF PowerCut
<1>7. CASE Expands
  BY <1>7, <1>3 DEF Expands, StartExpand, Fdisk, Rm, Resize, CommandFails, FailsAt, Works, host
<1>8. CASE UNCHANGED vars
  BY <1>8, <1>3 DEF vars, host
<1> QED
  BY <1>1, <1>2, <1>4, <1>5, <1>6, <1>7, <1>8, NumbersHost, MakesHost, ReleasesHost DEF Next, Scripts

LEMMA Host == Spec => []HostInv
BY InitHost, StepHost, PTL DEF Spec

(* The numbers of builds grow (VersionsGrow), however many builds there    *)
(* are, wherever they are killed and whatever fails: what is about to be   *)
(* given is greater than what has been, or is the counter's number, which  *)
(* is never smaller while it has not been lost.                            *)
THEOREM NumbersGrow == Spec => VersionsGrow
<1> DEFINE Grow ==
        motd' \notin {motd, NoVersion} /\ ~wiped =>
            \A v \in given : v < motd' \/ (v = motd' /\ job.status = "failed")
<1>1. ASSUME HostInv, [Next]_vars PROVE [Grow]_vars
  <2>1. CASE WriteVersion
    BY <1>1, <2>1 DEF HostInv, TypeOK, JobOK, Job, Numbered, WriteVersion, Step, NoVersion
  <2>2. CASE OpenMotd
    BY <2>2 DEF OpenMotd
  <2>3. CASE UNCHANGED motd
    BY <2>3
  <2>4. CASE Numbers
    BY <2>1, <2>2, <2>3, <2>4 DEF Numbers, Count, CountFails, OpenBuild, WriteBuild, BuildFails,
       Reread, MotdFails, numbering
  <2>5. CASE Makes
    BY <2>3, <2>5 DEF Makes, CleanOutput, CleanBuild, MakeFails, StartPatching, GoOnPatching,
       HasPatched, Finalize, Rootfs, Image, NoImage, numbering
  <2>6. CASE Releases \/ Kill \/ \E s \in {"build", "make", "release"} : Start(s)
    BY <2>3, <2>6 DEF Releases, Name, Archive, ArchiveFails, Move, MoveFails, Kill, Start, numbering
  <2>7. CASE Burn \/ Boot \/ Reboot \/ PowerCut
    BY <2>3, <2>7 DEF Burn, Boot, Reboot, PowerCut, host, numbering
  <2>8. CASE Expands
    BY <2>3, <2>8 DEF Expands, StartExpand, Fdisk, Rm, Resize, CommandFails, FailsAt, Works, host, numbering
  <2> QED
    BY <1>1, <2>4, <2>5, <2>6, <2>7, <2>8 DEF Next, Scripts
<1> QED
  BY <1>1, Host, PTL DEF Spec, VersionsGrow

(* A release has the image of the version in its name (ReleaseIsTrue).     *)
THEOREM ReleasesAreTrue == Spec => ReleaseIsTrue
<1> DEFINE True == settled /\ job.status = "ok" /\ releases' # releases => releases'[job.n] = job.n
<1>1. ASSUME HostInv, [Next]_vars PROVE [True]_vars
  <2>1. CASE Move
    BY <1>1, <2>1 DEF HostInv, Released, Move, Step, Put
  <2>2. CASE UNCHANGED releases
    BY <2>2
  <2>3. CASE Numbers
    BY <2>2, <2>3 DEF Numbers, Count, CountFails, OpenBuild, WriteBuild, BuildFails,
       Reread, OpenMotd, WriteVersion, MotdFails
  <2>4. CASE Makes
    BY <2>2, <2>4 DEF Makes, CleanOutput, CleanBuild, MakeFails, StartPatching, GoOnPatching,
       HasPatched, Finalize, Rootfs, Image, NoImage
  <2>5. CASE \/ Name \/ Archive \/ ArchiveFails \/ MoveFails \/ Kill
             \/ \E s \in {"build", "make", "release"} : Start(s)
    BY <2>2, <2>5 DEF Name, Archive, ArchiveFails, MoveFails, Kill, Start
  <2>6. CASE Burn \/ Boot \/ Reboot \/ PowerCut
    BY <2>2, <2>6 DEF Burn, Boot, Reboot, PowerCut, host
  <2>7. CASE Expands
    BY <2>2, <2>7 DEF Expands, StartExpand, Fdisk, Rm, Resize, CommandFails, FailsAt, Works, host
  <2> QED
    BY <1>1, <2>1, <2>3, <2>4, <2>5, <2>6, <2>7 DEF Next, Scripts, Releases
<1> QED
  BY <1>1, Host, PTL DEF Spec, ReleaseIsTrue

-----------------------------------------------------------------------------
(* The card and the board.                                                 *)

Size == {"small", "large"}

CardType ==
    /\ card.part \in Size /\ card.fs \in Size
    /\ card.enable \in {"yes", "unsynced", "no"}
    /\ card.hurt \in BOOLEAN
    /\ card = [image |-> card.image, part |-> card.part, fs |-> card.fs,
               enable |-> card.enable, hurt |-> card.hurt]
    /\ board \in {"off", "on", "fdisk", "rm", "resize"}

(* The partition is large from fdisk on, and the file is there until rm.   *)
CardInv ==
    /\ CardType
    /\ board # "off" => card.image # NoVersion
    /\ ~card.hurt =>
        /\ board \in {"fdisk", "rm"} => card.enable = "yes"
        /\ board \in {"rm", "resize"} => card.part = "large"
        /\ board \in {"on", "off"} /\ card.enable # "yes" /\ card.image # NoVersion => card.fs = "large"

LEMMA CardStep == CardInv /\ [Next]_vars => CardInv'
<1> SUFFICES ASSUME CardInv, [Next]_vars PROVE CardInv'
  OBVIOUS
<1> USE DEF CardInv, CardType, Size
<1>1. ASSUME NEW c \in {"fdisk", "rm", "resize"}, Command(c)
      PROVE  board = c /\ board' = IF c = "fdisk" THEN "rm" ELSE IF c = "rm" THEN "resize" ELSE "on"
  BY <1>1 DEF Command, Commands
<1>2. CASE UNCHANGED <<card, board>>
  BY <1>2
<1>3. CASE Burn
  <2>1. board = "off" /\ board' = "off"
    BY <1>3 DEF Burn
  <2>2. CASE card' = NoCard
    BY <2>1, <2>2 DEF NoCard
  <2>3. CASE card' = [NoCard EXCEPT !.image = output.sdcard, !.enable = "yes"]
    <3>1. card' = [image |-> output.sdcard, part |-> "small", fs |-> "small", enable |-> "yes", hurt |-> FALSE]
      BY <2>3 DEF NoCard
    <3> QED
      BY <2>1, <3>1
  <2> QED
    BY <1>3, <2>2, <2>3 DEF Burn
<1>4. CASE Boot
  BY <1>4 DEF Boot
<1>5. CASE StartExpand
  BY <1>5 DEF StartExpand, Commands
<1>6. CASE Fdisk
  BY <1>1, <1>6 DEF Fdisk, Works
<1>7. CASE Rm
  BY <1>1, <1>7 DEF Rm, Works
<1>8. CASE Resize
  BY <1>1, <1>8 DEF Resize, Works
<1>9. CASE CommandFails
  BY <1>1, <1>9 DEF CommandFails, FailsAt
<1>10. CASE Reboot
  BY <1>10 DEF Reboot
<1>11. CASE PowerCut
  <2>1. PICK back \in {"yes", "no", "unsynced"} :
            /\ back = card.enable \/ card.enable = "unsynced"
            /\ card' = [card EXCEPT !.enable = back, !.hurt = (@ \/ board # "on")]
    BY <1>11 DEF PowerCut
  <2>2. /\ UNCHANGED <<card.image, card.part, card.fs>>
        /\ card'.enable = back /\ card'.hurt = (card.hurt \/ board # "on")
    BY <2>1
  <2>3. board # "off" /\ board' = "off"
    BY <1>11 DEF PowerCut
  <2>4. CardType'
    BY <2>1, <2>2, <2>3
  <2> QED
    BY <2>1, <2>2, <2>3, <2>4
<1> QED
  BY <1>2, <1>3, <1>4, <1>5, <1>6, <1>7, <1>8, <1>9, <1>10, <1>11 DEF Next, Expands, vars

(* Once the enable file is gone the file system fills the card, whatever   *)
(* is burnt, booted and cut off, unless the script was hurt on that card   *)
(* (ExpandedWhenDone).                                                     *)
THEOREM Expansion == Spec => []ExpandedWhenDone
<1>1. Init => CardInv
  BY DEF Init, CardInv, CardType, Size, NoCard, NoVersion
<1>2. CardInv => ExpandedWhenDone
  BY DEF CardInv, ExpandedWhenDone
<1> QED
  BY <1>1, <1>2, CardStep, PTL DEF Spec
=============================================================================
