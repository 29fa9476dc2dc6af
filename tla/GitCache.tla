------------------------------ MODULE GitCache ------------------------------
(***************************************************************************)
(* The git backend, support/download/git: it keeps a git cache per package *)
(* between requests for different changesets, makes an archive of one, and *)
(* when a command fails removes the cache and starts once more.            *)
(*                                                                         *)
(* One request runs at a time, under the flock of Download.  git itself is *)
(* external: a command on a broken repository may fail, and does what it   *)
(* promises when it does not.  Changesets are commits or tags that do not  *)
(* move.                                                                   *)
(***************************************************************************)
EXTENDS Naturals, FiniteSets

CONSTANTS
    Cset,
    Exists,         \* the changesets that the remote has
    File,
    Files,          \* [Cset -> SUBSET File]: the tracked files
    Rev,
    Sub,            \* [Cset -> Rev \cup {None}]: the commit of its submodule
    None,
    Junk,           \* the content of a file that is in no changeset
    Rest,           \* files in the directory of a submodule that is not found:
                    \* it has no repository, or no index names it
    Mixed,          \* a working copy of a submodule with other files in it
    Damage,         \* what may be damaged in the cache
    MaxRequests,    \* bound on the requests
    MaxDamages,     \* bound on the times somebody meddles with the cache
    MaxFaults       \* bound on the failing commands and the kills

ASSUME GitAssumption ==
    /\ Exists \subseteq Cset
    /\ Files \in [Cset -> SUBSET File]
    /\ Sub \in [Cset -> Rev \cup {None}]
    /\ None \notin Cset \cup Rev \cup {Junk}
    /\ Junk \notin Cset
    /\ Rest \notin Rev \cup {None} /\ Mixed \notin Rev \cup {None, Rest}
    /\ Damage \subseteq {"lock", "broken", "commit"}
    /\ MaxRequests \in Nat
    /\ MaxDamages \in Nat
    /\ MaxFaults \in Nat

VARIABLES
    damage,         \* "lock": a left-over index.lock; "broken": git commands may
                    \* fail; "commit": the changeset cannot be read
    origin,         \* whether the remote is set
    have,           \* the changesets that have been fetched
    index,          \* what is checked out
    disk,           \* [File -> Cset \cup {Junk, None}]: the working tree
    sub,            \* what is in the directory of the submodule: a commit of
                    \* it, nothing, Rest or Mixed
    pc,
    cset, recurse,  \* -c and -r
    second,         \* BR_GIT_BACKEND_FIRST_FAULT of the run that goes on
    outer,          \* the command substitution in which a first run waits for
                    \* the nested one that the trap has started there
    ground,         \* "own" while a run is in the cache that it has entered;
                    \* "new" or "half" when a nested run has made another in
                    \* its place, to the end or not
    restarts,       \* how often this request has started anew
    archive,        \* what it has put into the archive
    rc,             \* the exit code of the last request
    faulted,        \* whether something outside the cache has failed in it
    requests, damages, faults

cache == <<damage, origin, have, index, disk, sub>>
asked == <<cset, recurse>>
run == <<second, outer, ground, restarts>>
request == <<asked, run>>
ends == <<archive, rc>>
vars == <<cache, pc, request, ends, faulted, requests, damages, faults>>

Label == {"idle", "init", "origin", "fetch", "verify", "deregister", "checkout",
          "clean", "log", "submodules", "list", "tar", "exit", "remove"}

Where == {"no", "log", "list", "sed", "tar"}
Held == Rev \cup {None, Rest, Mixed}

Empty == [f \in File |-> None]

(* A working tree: its files, and the commit of the submodule.             *)
Content(d, s) == [files |-> d, sub |-> s]
NoArchive == Content(Empty, None)
Archive == [files : [File -> Cset \cup {Junk, None}], sub : Held]

(* What the archive of changeset c is to be.                               *)
Exact(c) == [f \in File |-> IF f \in Files[c] THEN c ELSE None]
Wanted(c, r) == Content(Exact(c), IF r THEN Sub[c] ELSE None)

Init ==
    /\ damage = {}
    /\ origin = FALSE
    /\ have = {}
    /\ index = None
    /\ disk = Empty
    /\ sub = None
    /\ pc = "idle"
    /\ cset \in Cset
    /\ recurse = FALSE
    /\ second = FALSE
    /\ outer = "no"
    /\ ground = "own"
    /\ restarts = 0
    /\ archive = NoArchive
    /\ rc = 1
    /\ faulted = FALSE
    /\ requests = 0
    /\ damages = 0
    /\ faults = 0

-----------------------------------------------------------------------------

(* The download wrapper calls the backend.                                 *)
Request(c, r) ==
    /\ pc = "idle"
    /\ requests < MaxRequests
    /\ requests' = requests + 1
    /\ pc' = "init"
    /\ cset' = c
    /\ recurse' = r
    /\ second' = FALSE
    /\ outer' = "no"
    /\ ground' = "own"
    /\ restarts' = 0
    /\ archive' = NoArchive
    /\ faulted' = FALSE
    /\ UNCHANGED <<cache, rc, damages, faults>>

(* A user works in the cache, in a submodule too, or puts files where one  *)
(* goes; or the disk corrupts the cache.                                   *)
Meddle ==
    /\ pc = "idle"
    /\ damages < MaxDamages
    /\ damages' = damages + 1
    /\ \/ \E x \in Damage : damage' = damage \cup {x} /\ UNCHANGED <<disk, sub>>
       \/ /\ \E f \in File : disk' = [disk EXCEPT ![f] = Junk]
          /\ sub' \in IF index # None /\ Sub[index] # None THEN Held ELSE {sub, Rest}
          /\ UNCHANGED damage
    /\ UNCHANGED <<origin, have, index, pc, request, ends, faulted, requests, faults>>

-----------------------------------------------------------------------------

(* A run ends: with it the request, or else the substitution it is in.     *)
End(status) ==
    /\ pc' = IF outer = "no" THEN "idle" ELSE "exit"
    /\ rc' = status

RmCache ==
    /\ damage' = {}
    /\ origin' = FALSE
    /\ have' = {}
    /\ index' = None
    /\ disk' = Empty
    /\ sub' = None

(* Mutant of OnError: there is no second try.                              *)
OnErrorExits(o) ==
    /\ End(1)
    /\ UNCHANGED <<cache, request, archive>>

(* Mutant of OnError: the script is executed before the cache is removed   *)
(* and the fault is remembered, so that neither happens.                   *)
OnErrorLoops(o) ==
    /\ pc' = "init"
    /\ UNCHANGED <<cache, request, ends>>

(* _on_error: the ERR trap.  Inside a command substitution o it runs in    *)
(* the subshell, and a second fault there is the first of the script       *)
(* itself, but for the words of a "for", that come to nothing.             *)
OnError(o) ==
    /\ IF ~second
       THEN /\ second' = TRUE
            /\ restarts' = restarts + 1
            /\ outer' = o
            /\ ground' = "own"
            /\ pc' = "remove"
            /\ UNCHANGED rc
       ELSE /\ IF o = "list" THEN pc' = "tar" /\ UNCHANGED rc ELSE End(1)
            /\ UNCHANGED run
    /\ UNCHANGED <<cache, asked, archive>>

At(l) == pc = l
Goto(l) == pc' = l
Going == UNCHANGED <<request, ends, faulted, requests, damages, faults>>

(* rm -rf of the cache, and the script is run again.                       *)
Remove ==
    /\ At("remove")
    /\ RmCache
    /\ Goto("init")
    /\ Going

(* git init makes a repository, and mends some broken ones.                *)
GitInit ==
    /\ At("init")
    /\ damage' \in {damage, damage \ {"broken"}}
    /\ Goto("origin")
    /\ Going
    /\ UNCHANGED <<origin, have, index, disk, sub>>

(* git remote add when there is no origin, git remote set-url.             *)
RemoteOrigin ==
    /\ At("origin")
    /\ origin' = TRUE
    /\ Goto("fetch")
    /\ Going
    /\ UNCHANGED <<damage, have, index, disk, sub>>

(* git fetch, for references, tags and the changeset itself.               *)
Fetch ==
    /\ At("fetch")
    /\ origin
    /\ have' = have \cup Exists
    /\ Goto("verify")
    /\ Going
    /\ UNCHANGED <<damage, origin, index, disk, sub>>

(* Mutant of Verify: a missing commit goes through the ERR trap.           *)
VerifyTraps ==
    /\ At("verify")
    /\ IF cset \in have /\ "commit" \notin damage
       THEN Goto("deregister") /\ UNCHANGED <<cache, request, ends>>
       ELSE OnError("no")
    /\ UNCHANGED <<faulted, requests, damages, faults>>

(* git rev-parse --verify: a commit that is missing, or cannot be read,    *)
(* ends the script without the trap.                                       *)
Verify ==
    /\ At("verify")
    /\ IF cset \in have /\ "commit" \notin damage
       THEN Goto("deregister") /\ UNCHANGED rc
       ELSE End(1)
    /\ UNCHANGED <<cache, request, archive, faulted, requests, damages, faults>>

(* Mutant of Deregister: the working trees of submodules are kept.         *)
DeregisterSkipped ==
    /\ At("deregister")
    /\ Goto("checkout")
    /\ Going
    /\ UNCHANGED cache

(* git submodule foreach ... rm -rf, for the submodules that it finds.     *)
Deregister ==
    /\ At("deregister")
    /\ sub' = IF index # None /\ Sub[index] # None /\ sub # Rest THEN None ELSE sub
    /\ Goto("checkout")
    /\ Going
    /\ UNCHANGED <<damage, origin, have, index, disk>>

(* git checkout -f: the files that the index tracks make place for those   *)
(* of the changeset; others, and the submodule, stay.                      *)
CheckedOut(d) ==
    [f \in File |->
        IF f \in Files[cset] THEN cset
        ELSE IF index # None /\ f \in Files[index] THEN None ELSE d[f]]

Checkout ==
    /\ At("checkout")
    /\ "lock" \notin damage
    /\ disk' = CheckedOut(disk)
    /\ index' = cset
    /\ Goto("clean")
    /\ Going
    /\ UNCHANGED <<damage, origin, have, sub>>

(* Mutant of Clean: untracked files are kept.                              *)
CleanSkipped ==
    /\ At("clean")
    /\ Goto("log")
    /\ Going
    /\ UNCHANGED cache

(* git clean -ffdx: untracked files and repositories; what is in the       *)
(* directory of a submodule of the index is neither.                       *)
Cleaned == [f \in File |-> IF f \in Files[index] THEN disk[f] ELSE None]

Clean ==
    /\ At("clean")
    /\ disk' = Cleaned
    /\ sub' = IF Sub[index] = None THEN None ELSE sub
    /\ Goto("log")
    /\ Going
    /\ UNCHANGED <<damage, origin, have, index>>

(* git log -1, for the date.                                               *)
Log ==
    /\ At("log")
    /\ Goto(IF recurse THEN "submodules" ELSE "tar")
    /\ Going
    /\ UNCHANGED cache

(* git submodule update --init --recursive.  The files that are in its way *)
(* stay in the working copy, or are in it.                                 *)
Updated ==
    IF Sub[index] = None THEN {sub}
    ELSE {Sub[index]} \cup (IF sub = Rest THEN {Mixed} ELSE {})

Submodules ==
    /\ At("submodules")
    /\ ground = "own"
    /\ sub' \in Updated
    /\ Goto("list")
    /\ Going
    /\ UNCHANGED <<damage, origin, have, index, disk>>

(* The loop over the submodules, that mends paths in their .git files.     *)
ListSubmodules ==
    /\ At("list")
    /\ Goto("tar")
    /\ Going
    /\ UNCHANGED cache

(* mk_tar_gz: everything that is in the working tree.                      *)
MkTarGz ==
    /\ At("tar")
    /\ archive' = Content(disk, sub)
    /\ End(0)
    /\ UNCHANGED <<cache, request, faulted, requests, damages, faults>>

-----------------------------------------------------------------------------
(* The first run, when a nested one has ended in its command substitution. *)

(* It goes on after the log when that one succeeded, and after the list of *)
(* a "for" in any case.  Its directory has been removed.                   *)
GoesOn ==
    /\ At("exit")
    /\ outer = "list" \/ (outer = "log" /\ rc = 0)
    /\ Goto(IF outer = "log" /\ recurse THEN "submodules" ELSE "tar")
    /\ second' = FALSE
    /\ outer' = "no"
    /\ ground' = IF rc = 0 THEN "new" ELSE "half"
    /\ UNCHANGED <<cache, asked, restarts, ends, faulted, requests, damages, faults>>

(* With -q the nested run has printed nothing, and tar takes no date.      *)
TarGoesOn ==
    /\ At("exit")
    /\ outer = "tar"
    /\ rc = 0
    /\ archive' = Content(disk, sub)
    /\ Goto("idle")
    /\ second' = FALSE
    /\ outer' = "no"
    /\ ground' = "new"
    /\ UNCHANGED <<cache, asked, restarts, rc, faulted, requests, damages, faults>>

(* The assignment has failed, or what the nested run has printed is no     *)
(* date and no path.                                                       *)
FailsAfter ==
    /\ At("exit")
    /\ outer \in {"sed", "tar"} \/ (outer = "log" /\ rc # 0)
    /\ outer' = "no"
    /\ ground' = "own"
    /\ restarts' = restarts + 1
    /\ Goto("remove")
    /\ UNCHANGED <<cache, asked, second, ends, faulted, requests, damages, faults>>

(* Without a directory git fails, and what the nested run printed is not   *)
(* the date of the log.                                                    *)
Astray ==
    /\ ground # "own"
    /\ \/ At("submodules") /\ OnError("no")
       \/ At("tar") /\ ~recurse /\ OnError("tar")
    /\ UNCHANGED <<faulted, requests, damages, faults>>

-----------------------------------------------------------------------------

(* Where the trap runs when the command of a label fails.                  *)
Traps ==
    CASE At("log") -> {"log"}
      [] At("list") -> {"list", "sed"}
      [] At("tar") -> {"no", "tar"}
      [] OTHER -> {"no"}

(* A command fails because of what is in the cache: damage, or files where *)
(* a submodule is to be cloned.                                            *)
CacheFails ==
    /\ pc \notin {"idle", "exit", "remove", "tar", "verify"}
    /\ \/ "broken" \in damage
       \/ At("checkout") /\ "lock" \in damage
       \/ At("submodules") /\ sub = Rest
    /\ \E o \in Traps : OnError(o)
    /\ UNCHANGED <<faulted, requests, damages, faults>>

(* The tree d on its way to the tree e.                                    *)
Partly(d, e) == {[f \in File |-> IF f \in S THEN e[f] ELSE d[f]] : S \in SUBSET File}

(* A removal of the cache that has not come to its end.  The remote and    *)
(* what has been fetched go together: both are set again before any use.   *)
Torn ==
    /\ damage' \in SUBSET (damage \cup (Damage \ {"lock"}))
    /\ UNCHANGED <<origin, have>> \/ (origin' = FALSE /\ have' = {})
    /\ index' \in {index, None}
    /\ disk' \in Partly(disk, Empty)
    /\ sub' \in IF sub = None THEN {None}
                ELSE {None, Rest} \cup (IF index' = index THEN {sub} ELSE {})

(* What a command leaves that does not come to its end: a checkout its     *)
(* lock, others damage, and a removal of a submodule some of its files.    *)
CutShort ==
    CASE At("remove") -> Torn
      [] At("checkout") ->
            /\ damage' \in {damage, damage \cup {"lock"}}
            /\ disk' \in Partly(disk, CheckedOut(disk))
            /\ UNCHANGED <<origin, have, index, sub>>
      [] OTHER ->
            /\ damage' \in {damage} \cup {damage \cup {x} : x \in Damage \ {"lock"}}
            /\ disk' \in IF At("clean") THEN Partly(disk, Cleaned) ELSE {disk}
            /\ sub' \in CASE At("deregister") /\ sub # None -> {sub, None, Rest}
                         [] At("submodules") /\ Sub[index] # None -> {sub, Rest} \cup Updated
                         [] OTHER -> {sub}
            /\ UNCHANGED <<origin, have, index>>

(* The network or the disk fails; rev-parse is a command as any other, but *)
(* its failure is taken for a missing commit, and rm -rf is not looked     *)
(* after at all.                                                           *)
Fault ==
    /\ pc \notin {"idle", "exit"}
    /\ faults < MaxFaults
    /\ faults' = faults + 1
    /\ faulted' = TRUE
    /\ CASE At("verify") -> End(1) /\ UNCHANGED <<cache, request, archive>>
         [] At("remove") -> Torn /\ Goto("init") /\ UNCHANGED <<request, ends>>
         [] OTHER ->
              \/ \E o \in Traps : OnError(o)
              \/ second /\ CutShort /\ End(1) /\ UNCHANGED <<request, archive>>
    /\ UNCHANGED <<requests, damages>>

(* The script is killed in the middle of a command, and those it runs in.  *)
Kill ==
    /\ ~At("idle")
    /\ faults < MaxFaults
    /\ faults' = faults + 1
    /\ faulted' = TRUE
    /\ CutShort
    /\ Goto("idle")
    /\ rc' = 1
    /\ UNCHANGED <<request, archive, requests, damages>>

Script ==
    \/ GitInit \/ RemoteOrigin \/ Fetch \/ Verify \/ Deregister \/ Checkout
    \/ Clean \/ Log \/ Submodules \/ ListSubmodules \/ MkTarGz
    \/ GoesOn \/ TarGoesOn \/ FailsAfter \/ Astray
    \/ CacheFails \/ Remove \/ Fault \/ Kill

Next ==
    \/ \E c \in Cset, r \in BOOLEAN : Request(c, r)
    \/ Meddle
    \/ Script

Spec == Init /\ [][Next]_vars

(* The script goes on, and git and tar end.                                *)
FairSpec == Spec /\ WF_vars(Script)

-----------------------------------------------------------------------------

(* Every variable has its type.                                            *)
TypeOK ==
    /\ damage \subseteq {"lock", "broken", "commit"}
    /\ origin \in BOOLEAN
    /\ have \subseteq Exists
    /\ index \in Exists \cup {None}
    /\ disk \in [File -> Cset \cup {Junk, None}]
    /\ sub \in Held
    /\ pc \in Label
    /\ cset \in Cset
    /\ recurse \in BOOLEAN
    /\ second \in BOOLEAN
    /\ outer \in Where
    /\ ground \in {"own", "new", "half"}
    /\ restarts \in Nat
    /\ archive \in Archive
    /\ rc \in {0, 1}
    /\ faulted \in BOOLEAN
    /\ requests \in 0 .. MaxRequests
    /\ damages \in 0 .. MaxDamages
    /\ faults \in 0 .. MaxFaults

(* Whatever earlier requests, kills and users have left in the cache, the  *)
(* archive of a changeset holds its files and no others, with the          *)
(* submodule at its commit when submodules were asked for and no trace of  *)
(* one otherwise.  The exceptions are two.  Files in the directory of a    *)
(* submodule that foreach does not find, as a kill, a failing command or a *)
(* user leaves them, stay there (git:177, 181, 186) and get into the       *)
(* archive of a changeset that has a submodule there; the working copy of  *)
(* one that it finds never does.  And when the list of the submodules      *)
(* fails (203) and then the nested run that the trap has started there,    *)
(* the script archives what that one has left.                             *)
StrayFiles ==
    /\ Sub[cset] # None
    /\ archive.sub = IF recurse THEN Mixed ELSE Rest
    /\ faults > 0 \/ damages > 0
ArchiveIsExact ==
    pc = "idle" /\ rc = 0 /\ requests > 0 /\ ground # "half" =>
        /\ archive.files = Exact(cset)
        /\ archive.sub = Wanted(cset, recurse).sub \/ StrayFiles

(* A request fails only when the remote does not have the changeset, when  *)
(* something outside the cache has failed, or when its commit cannot be    *)
(* read: other damage, locks and left-over files cost no request more than *)
(* its time, although _on_error is to mend "any" borked tree (git:30-34)   *)
(* and a commit that cannot be read fails every request until the cache is *)
(* removed by hand (145-151).                                              *)
SelfHeals ==
    pc = "idle" /\ rc = 1 /\ requests > 0 =>
        cset \notin Exists \/ faulted \/ "commit" \in damage

(* Asking for a changeset that does not exist does not cost a cache that   *)
(* is whole: what has been fetched goes away in _on_error only, and the    *)
(* first time a request comes there it is because of damage, of files in   *)
(* the way of a submodule, or of a fault.                                  *)
CacheIsKept ==
    [][/\ have # {} /\ have' = {} => pc = "remove"
       /\ pc # "remove" /\ pc' = "remove" =>
             damage # {} \/ sub = Rest \/ faulted' \/ restarts > 0]_vars

(* _on_error starts a clone from scratch "only once" (git:31).  It does so *)
(* once for every run that a command substitution is part of, so up to     *)
(* three times.                                                            *)
FewRestarts == restarts <= 3

(* Every request ends.                                                     *)
EveryRequestEnds == pc # "idle" ~> pc = "idle"

=============================================================================
