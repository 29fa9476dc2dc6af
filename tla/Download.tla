------------------------------ MODULE Download ------------------------------
(***************************************************************************)
(* The DOWNLOAD macro of package/pkg-download.mk and the script it runs    *)
(* under flock, support/download/dl-wrapper, for several requests that     *)
(* share one directory of BR2_DL_DIR: the host and target variants of a    *)
(* package, packages with one DL_SUBDIR, builds of several trees.          *)
(*                                                                         *)
(* One action per step of the script that another process or a crash can   *)
(* tell apart.  The backends and post-processes are external: they give    *)
(* some content or fail.                                                   *)
(***************************************************************************)
EXTENDS CheckHash

CONSTANTS
    Request,        \* runs of the DOWNLOAD macro
    FileOf,         \* [Request -> Name]: -f and the base name of -o
    HashFileOf,     \* [Request -> HashFile]: -H
    OldDl,          \* [Name -> Content \cup {NoFile}]: the files of -D
    Cut,            \* any file cut short, the empty file included
    NoFile,
    Uri,
    PrimarySite,    \* Seq(Uri): BR2_PRIMARY_SITE with and without DL_SUBDIR
    PrimaryOnly,    \* BR2_PRIMARY_SITE_ONLY
    Site,           \* [Request -> Uri]: the package's own site
    BackupSite,     \* Seq(Uri): BR2_BACKUP_SITE with and without DL_SUBDIR
    Serves,         \* [Uri -> SUBSET (Content \cup {NoFile})]: NoFile is a failure
    PostProcess,    \* the requests with -p
    Post,           \* [Content -> Content]: cargo- or go-post-process
    LocalFaults,    \* whether ln, cp, mktemp, chmod, cat, mv and rm may fail
    Free,           \* the lock file is not locked
    MaxKills,       \* bound on the processes killed
    MaxAsks         \* bound on the requests asked anew

ASSUME DownloadAssumption ==
    /\ FileOf \in [Request -> Name]
    /\ HashFileOf \in [Request -> HashFile]
    /\ OldDl \in [Name -> Content \cup {NoFile}]
    /\ Cut \in Content
    /\ NoFile \notin Content
    /\ PrimarySite \in Seq(Uri)
    /\ PrimaryOnly \in BOOLEAN
    /\ Site \in [Request -> Uri]
    /\ BackupSite \in Seq(Uri)
    /\ Serves \in [Uri -> SUBSET (Content \cup {NoFile})]
    /\ PostProcess \subseteq Request
    /\ Post \in [Content -> Content]
    /\ LocalFaults \in BOOLEAN
    /\ Free \notin Request
    /\ MaxKills \in Nat
    /\ MaxAsks \in Nat

(* All the trees that share the directory agree on a file's hashes.        *)
SameHashes ==
    \A r, s \in Request : FileOf[r] = FileOf[s] => HashFileOf[r] = HashFileOf[s]

VARIABLES
    dl,             \* [Name -> Content \cup {NoFile}]: the shared directory
    lock,           \* who holds $(PKG_DL_DIR)/.lock
    pc,             \* where each request is
    u,              \* the URI each request is trying
    tmpd,           \* whether its temporary directory exists
    tmpf,           \* the file its backend wrote in tmpd
    tmpo,           \* tmp_output, next to the final file
    rc,             \* how the wrapper ended
    taken,          \* what the extract step has read
    litter,         \* how the wrappers ended that left their tmp_output
    kills, asks

vars == <<dl, lock, pc, u, tmpd, tmpf, tmpo, rc, taken, litter, kills, asks>>
disk == <<tmpd, tmpf, tmpo>>
outside == <<litter, taken, kills, asks>>

Inside == {"legacy", "cp", "existing", "unlink", "uri", "backend", "post",
           "check", "mktemp", "cat", "rmtmpd", "mv", "exit"}

Label == Inside \cup {"flock", "ended", "extracted"}

(* rc is the exit status; Fault, Stuck and Killed tell apart ways of       *)
(* failing that the caller cannot.                                         *)
Fault == 2
Stuck == 3
Killed == 137

MaybeFile == Content \cup {NoFile}

(* DOWNLOAD_URIS                                                           *)
Uris(r) == PrimarySite \o (IF PrimaryOnly THEN <<>> ELSE <<Site[r]>> \o BackupSite)

(* check-hash's answer to request r about content c.                       *)
Code(r, c) == ExitCode(HashFileOf[r], FileOf[r], c)
Vouched(r, c) == c # NoFile /\ Code(r, c) = 0

-----------------------------------------------------------------------------

Init ==
    /\ dl \in [Name -> MaybeFile]
    /\ lock = Free
    /\ pc = [r \in Request |-> "flock"]
    /\ u = [r \in Request |-> 1]
    /\ tmpd = [r \in Request |-> FALSE]
    /\ tmpf = [r \in Request |-> NoFile]
    /\ tmpo = [r \in Request |-> NoFile]
    /\ rc = [r \in Request |-> 1]
    /\ taken = [r \in Request |-> NoFile]
    /\ litter = {}
    /\ kills = 0
    /\ asks = 0

At(r, l) == pc[r] = l
Goto(r, l) == pc' = [pc EXCEPT ![r] = l]
Put(r, c) == dl' = [dl EXCEPT ![FileOf[r]] = c]

(* exit: the wrapper ends with a status.                                   *)
Exit(r, status) ==
    /\ Goto(r, "exit")
    /\ rc' = [rc EXCEPT ![r] = status]

(* Mutant of Flock: the wrapper is run without flock.                      *)
FlockDropped(r) ==
    /\ At(r, "flock")
    /\ lock' = r
    /\ Goto(r, "legacy")
    /\ UNCHANGED <<dl, u, disk, rc, outside>>

(* flock runs the wrapper once it holds the lock.                          *)
Flock(r) ==
    /\ At(r, "flock")
    /\ lock = Free
    /\ lock' = r
    /\ Goto(r, "legacy")
    /\ UNCHANGED <<dl, u, disk, rc, outside>>

(* Link the file from the old flat directory; cp when ln fails.            *)
Legacy(r) ==
    /\ At(r, "legacy")
    /\ IF dl[FileOf[r]] = NoFile /\ OldDl[FileOf[r]] # NoFile
       THEN \/ Put(r, OldDl[FileOf[r]]) /\ Goto(r, "existing")
            \/ LocalFaults /\ Put(r, Cut) /\ Goto(r, "cp")
            \/ LocalFaults /\ Goto(r, "existing") /\ UNCHANGED dl
       ELSE Goto(r, "existing") /\ UNCHANGED dl
    /\ UNCHANGED <<lock, u, disk, rc, outside>>

(* cp ends: with the whole file, or failing halfway (the "|| true").       *)
Copied(r) ==
    /\ At(r, "cp")
    /\ Put(r, OldDl[FileOf[r]]) \/ UNCHANGED dl
    /\ Goto(r, "existing")
    /\ UNCHANGED <<lock, u, disk, rc, outside>>

(* A file that is there already is checked first.                          *)
Existing(r) ==
    /\ At(r, "existing")
    /\ LET c == dl[FileOf[r]] IN
       IF c = NoFile THEN Goto(r, "uri") /\ UNCHANGED rc
       ELSE IF Code(r, c) = 0 THEN Exit(r, 0)
       ELSE IF Code(r, c) # 2 THEN Exit(r, 1)
       ELSE Goto(r, "unlink") /\ UNCHANGED rc
    /\ u' = [u EXCEPT ![r] = 1]
    /\ UNCHANGED <<dl, lock, disk, outside>>

Unlink(r) ==
    /\ At(r, "unlink")
    /\ Put(r, NoFile)
    /\ Goto(r, "uri")
    /\ UNCHANGED <<lock, u, disk, rc, outside>>

(* The head of the loop: no URI left, or a temporary directory for the     *)
(* next one.                                                               *)
TryUri(r) ==
    /\ At(r, "uri")
    /\ IF u[r] > Len(Uris(r)) THEN Exit(r, 1) /\ UNCHANGED tmpd
       ELSE \/ tmpd' = [tmpd EXCEPT ![r] = TRUE] /\ Goto(r, "backend") /\ UNCHANGED rc
            \/ LocalFaults /\ Exit(r, Fault) /\ UNCHANGED tmpd
    /\ UNCHANGED <<dl, lock, u, tmpf, tmpo, outside>>

(* rm -rf tmpd; continue                                                   *)
NextUri(r) ==
    /\ tmpd' = [tmpd EXCEPT ![r] = FALSE]
    /\ tmpf' = [tmpf EXCEPT ![r] = NoFile]
    /\ u' = [u EXCEPT ![r] = u[r] + 1]
    /\ Goto(r, "uri")
    /\ UNCHANGED <<rc, tmpo>>

Backend(r) ==
    /\ At(r, "backend")
    /\ \E c \in Serves[Uris(r)[u[r]]] :
          IF c = NoFile THEN NextUri(r)
          ELSE /\ tmpf' = [tmpf EXCEPT ![r] = c]
               /\ Goto(r, IF r \in PostProcess THEN "post" ELSE "check")
               /\ UNCHANGED <<u, rc, tmpd, tmpo>>
    /\ UNCHANGED <<dl, lock, outside>>

(* The post-process rewrites the file.  When it fails, "set -e" ends the   *)
(* wrapper there and then.                                                 *)
PostProcessStep(r) ==
    /\ At(r, "post")
    /\ \/ /\ tmpf' = [tmpf EXCEPT ![r] = Post[tmpf[r]]]
          /\ Goto(r, "check")
          /\ UNCHANGED rc
       \/ Exit(r, 1) /\ UNCHANGED tmpf
    /\ UNCHANGED <<dl, lock, u, tmpd, tmpo, outside>>

(* Mutant of Check: the first bad location ends the wrapper.               *)
CheckGivesUp(r) ==
    /\ At(r, "check")
    /\ LET code == Code(r, tmpf[r]) IN
       IF code \in {0, 3}
       THEN /\ rc' = [rc EXCEPT ![r] = IF code = 0 THEN 0 ELSE 1]
            /\ Goto(r, "mktemp")
            /\ UNCHANGED <<u, disk>>
       ELSE Exit(r, 1) /\ UNCHANGED <<u, disk>>
    /\ UNCHANGED <<dl, lock, outside>>

(* Mutant of Check: a file that fails its hashes is good enough.           *)
CheckSavesAll(r) ==
    /\ At(r, "check")
    /\ rc' = [rc EXCEPT ![r] = 0]
    /\ Goto(r, "mktemp")
    /\ UNCHANGED <<u, disk, dl, lock, outside>>

(* A file that no hash speaks for is saved, but is an error.               *)
Check(r) ==
    /\ At(r, "check")
    /\ LET code == Code(r, tmpf[r]) IN
       IF code \in {0, 3}
       THEN /\ rc' = [rc EXCEPT ![r] = IF code = 0 THEN 0 ELSE 1]
            /\ Goto(r, "mktemp")
            /\ UNCHANGED <<u, disk>>
       ELSE NextUri(r)
    /\ UNCHANGED <<dl, lock, outside>>

(* mktemp next to the final file; chmod, unless it fails (Stop).           *)
MkTemp(r) ==
    /\ At(r, "mktemp")
    /\ \/ /\ tmpo' = [tmpo EXCEPT ![r] = Cut]
          /\ Goto(r, "cat")
          /\ UNCHANGED rc
       \/ LocalFaults /\ Exit(r, Fault) /\ UNCHANGED tmpo
    /\ UNCHANGED <<dl, lock, u, tmpd, tmpf, outside>>

(* Mutant of Cat: a failing cat removes tmpd only.                         *)
CatForgetsOutput(r) ==
    /\ At(r, "cat")
    /\ \/ /\ tmpo' = [tmpo EXCEPT ![r] = tmpf[r]]
          /\ Goto(r, "rmtmpd")
          /\ UNCHANGED <<rc, tmpd, tmpf>>
       \/ /\ LocalFaults
          /\ tmpd' = [tmpd EXCEPT ![r] = FALSE]
          /\ tmpf' = [tmpf EXCEPT ![r] = NoFile]
          /\ Exit(r, Fault)
          /\ UNCHANGED tmpo
    /\ UNCHANGED <<dl, lock, u, outside>>

(* cat appends to tmp_output, which is Cut until it has finished; when it  *)
(* fails both temporaries are removed.                                     *)
Cat(r) ==
    /\ At(r, "cat")
    /\ \/ /\ tmpo' = [tmpo EXCEPT ![r] = tmpf[r]]
          /\ Goto(r, "rmtmpd")
          /\ UNCHANGED <<rc, tmpd, tmpf>>
       \/ /\ LocalFaults
          /\ tmpd' = [tmpd EXCEPT ![r] = FALSE]
          /\ tmpf' = [tmpf EXCEPT ![r] = NoFile]
          /\ tmpo' = [tmpo EXCEPT ![r] = NoFile]
          /\ Exit(r, Fault)
    /\ UNCHANGED <<dl, lock, u, outside>>

RmTmpd(r) ==
    /\ At(r, "rmtmpd")
    /\ tmpd' = [tmpd EXCEPT ![r] = FALSE]
    /\ tmpf' = [tmpf EXCEPT ![r] = NoFile]
    /\ Goto(r, "mv")
    /\ UNCHANGED <<dl, lock, u, tmpo, rc, outside>>

(* mv is rename(2): the file appears whole under its final name.           *)
Mv(r) ==
    /\ At(r, "mv")
    /\ tmpo' = [tmpo EXCEPT ![r] = NoFile]
    /\ \/ Put(r, tmpo[r]) /\ Exit(r, rc[r])
       \/ LocalFaults /\ Exit(r, Fault) /\ UNCHANGED dl
    /\ UNCHANGED <<lock, u, tmpd, tmpf, outside>>

(* "set -e": a removal that fails (lines 81, 136, 155, 204, 207 and 214),  *)
(* or the chmod of line 191, ends the wrapper there and then, with the     *)
(* temporaries where they are.                                             *)
Stop(r) ==
    /\ LocalFaults
    /\ \/ pc[r] \in {"unlink", "cat", "rmtmpd", "mv"}
       \/ At(r, "backend") /\ NoFile \in Serves[Uris(r)[u[r]]]
       \/ At(r, "check") /\ Code(r, tmpf[r]) \notin {0, 3}
    /\ Exit(r, Stuck)
    /\ UNCHANGED <<dl, lock, u, disk, outside>>

(* The process is gone: the kernel drops its lock, and the temporaries it  *)
(* had are nobody's from now on.  tmpd is in BUILD_DIR, where it is no     *)
(* matter.                                                                 *)
Leave(r, how) ==
    /\ lock' = IF lock = r THEN Free ELSE lock
    /\ Goto(r, "ended")
    /\ litter' = IF tmpo[r] # NoFile THEN litter \cup {how} ELSE litter
    /\ tmpd' = [tmpd EXCEPT ![r] = FALSE]
    /\ tmpf' = [tmpf EXCEPT ![r] = NoFile]
    /\ tmpo' = [tmpo EXCEPT ![r] = NoFile]
    /\ UNCHANGED <<dl, u, taken, asks>>

(* Mutant of Release: the lock outlives the wrapper.                       *)
ReleaseKeepsLock(r) ==
    /\ At(r, "exit")
    /\ Goto(r, "ended")
    /\ UNCHANGED <<dl, lock, u, disk, rc, outside>>

Release(r) ==
    /\ At(r, "exit")
    /\ Leave(r, IF rc[r] = Stuck THEN "stuck" ELSE "exit")
    /\ UNCHANGED <<rc, kills>>

(* A signal to the process group, or the machine going down.               *)
Kill(r) ==
    /\ pc[r] \in Inside \cup {"flock"}
    /\ kills < MaxKills
    /\ kills' = kills + 1
    /\ rc' = [rc EXCEPT ![r] = Killed]
    /\ Leave(r, "kill")

(* The extract step of the package reads the file, without the lock.       *)
Extract(r) ==
    /\ At(r, "ended")
    /\ rc[r] = 0
    /\ taken' = [taken EXCEPT ![r] = dl[FileOf[r]]]
    /\ Goto(r, "extracted")
    /\ UNCHANGED <<dl, lock, u, disk, rc, litter, kills, asks>>

(* make is run again: after a failure, or after the package's dirclean.    *)
Ask(r) ==
    /\ pc[r] \in {"ended", "extracted"}
    /\ asks < MaxAsks
    /\ asks' = asks + 1
    /\ Goto(r, "flock")
    /\ rc' = [rc EXCEPT ![r] = 1]
    /\ UNCHANGED <<dl, lock, u, disk, taken, litter, kills>>

Step(r) ==
    \/ Flock(r) \/ Legacy(r) \/ Copied(r) \/ Existing(r) \/ Unlink(r)
    \/ TryUri(r) \/ Backend(r) \/ PostProcessStep(r) \/ Check(r)
    \/ MkTemp(r) \/ Cat(r) \/ RmTmpd(r) \/ Mv(r) \/ Stop(r) \/ Release(r)

Next == \E r \in Request : Step(r) \/ Kill(r) \/ Extract(r) \/ Ask(r)

Spec == Init /\ [][Next]_vars

(* Every local command ends, and so does every backend: wget, git and the  *)
(* others give up on a dead peer.  Nobody owes a kill or a new request.    *)
FairSpec == Spec /\ \A r \in Request : WF_vars(Step(r))

-----------------------------------------------------------------------------

TypeOK ==
    /\ dl \in [Name -> MaybeFile]
    /\ lock \in Request \cup {Free}
    /\ pc \in [Request -> Label]
    /\ u \in [Request -> Nat \ {0}]
    /\ tmpd \in [Request -> BOOLEAN]
    /\ tmpf \in [Request -> MaybeFile]
    /\ tmpo \in [Request -> MaybeFile]
    /\ rc \in [Request -> {0, 1, Fault, Stuck, Killed}]
    /\ taken \in [Request -> MaybeFile]
    /\ litter \subseteq {"exit", "stuck", "kill"}
    /\ kills \in Nat
    /\ asks \in Nat

(* The requests that have been told that their file is there.              *)
Delivered == {r \in Request : pc[r] \in {"exit", "ended", "extracted"} /\ rc[r] = 0}

(* A request that was told so finds the file, and finds it right, for as   *)
(* long as it needs it: the extract step reads it without the lock, while  *)
(* other requests for the same file come and go (dl-wrapper:72-83 and      *)
(* 203-216 against pkg-generic.mk:184-222).                                *)
ExtractSound ==
    /\ \A r \in Delivered : Vouched(r, dl[FileOf[r]])
    /\ \A r \in Request : pc[r] = "extracted" => Vouched(r, taken[r])

(* BR2_DL_DIR is not cluttered with partial or failed downloads            *)
(* (dl-wrapper:4-6): a wrapper that ends by itself leaves no tmp_output    *)
(* next to the files, whether it found the file or not and whether mktemp, *)
(* cat or mv failed.  The exceptions are two: a chmod that fails after     *)
(* mktemp (191), and an rm that fails (204, 207, 214); "set -e" ends the   *)
(* wrapper at either.                                                      *)
DlDirUncluttered == "exit" \notin litter

(* One good location is enough: when the package's own site, or one of the *)
(* mirrors, always serves a file that matches the hashes, no bad file      *)
(* already there, no bad mirror before it and no number of earlier kills   *)
(* makes the download fail (dl-wrapper:72-165).                            *)
GoodUri(r) ==
    \E i \in DOMAIN Uris(r) : \A c \in Serves[Uris(r)[i]] : Vouched(r, c)
Refutable(r) == \A c \in Content : Code(r, c) \in {0, 2}
GoodUriSucceeds ==
    \A r \in Request \ PostProcess :
        GoodUri(r) /\ Refutable(r) /\ pc[r] = "ended" => rc[r] # 1

(* The wrapper implements the atomic store: every step is one of its       *)
(* operations or is invisible (dl-wrapper:3-15).                           *)
AbstractStore == INSTANCE DlStore WITH store <- dl, delivered <- Delivered
Implements == AbstractStore!StoreSpec

(* No request waits for the lock or loops over the URIs for ever.          *)
RequestEnds(r) == pc[r] = "flock" ~> pc[r] = "ended"
EveryRequestEnds == \A r \in Request : RequestEnds(r)

=============================================================================
