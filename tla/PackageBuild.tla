---------------------------- MODULE PackageBuild ----------------------------
(***************************************************************************)
(* The build of the packages: the recipes of package/pkg-generic.mk, the   *)
(* per-package directories of package/pkg-utils.mk and target-finalize of  *)
(* the top Makefile, run one after the other or, with per-package          *)
(* directories, by make -jN.  A user runs make over and over, edits        *)
(* sources in between, and interrupts make; recipes fail.                  *)
(*                                                                         *)
(* make itself is external: it looks at all the stamps at one moment,      *)
(* remakes those that are missing or older than a prerequisite, runs a     *)
(* recipe once everything before it is up to date, and starts nothing new  *)
(* after an error.                                                         *)
(***************************************************************************)
EXTENDS PackageSteps

CONSTANTS
    Order,          \* the packages in the order of $(sort ...)
    BadArch,        \* packages that install binaries of another architecture
    Editable,       \* bound: the packages whose sources the user edits
    MaxJobs,        \* bound on N in make -jN
    MaxRuns,        \* bound on the runs of make
    MaxEdits,       \* bound on the edits of sources
    MaxFaults       \* bound on the recipes that fail and the interrupts

ASSUME BuildAssumption ==
    /\ Order \in Seq(Package)
    /\ \A p \in Package : \E i \in DOMAIN Order : Order[i] = p
    /\ BadArch \subseteq Package
    /\ Editable \subseteq Package
    /\ MaxJobs \in Nat \ {0}
    /\ MaxRuns \in Nat
    /\ MaxEdits \in Nat
    /\ MaxFaults \in Nat

(* Versions of a package's files.                                          *)
Absent == 0
Pristine == 1
Edited == 2
Version == {Absent, Pristine, Edited}

VARIABLES
    ppd,            \* BR2_PER_PACKAGE_DIRECTORIES, as the .config has it
    stamps,         \* the stamp files
    old,            \* those that a prerequisite is newer than
    ext,            \* [Package -> Version]: what is in the _OVERRIDE_SRCDIR
    work,           \* [Package -> Version]: the sources in the build directory
    obj,            \* [Package -> Version]: what the last build made of them
    tree,           \* [Tree -> [Dir -> [Package -> Version]]]: installed files
    before,         \* the packages that have a .files-list.before
    since,          \* the packages installed in their tree since then
    listed,         \* the packages with files in .files-list.txt
    make,           \* the run of make: what for, with how many jobs, how far
    rms,            \* the stamps or directories it has still to remove
    todo,           \* the stamps it has still to make
    running,        \* those of which the recipe runs
    torn,           \* whether a -dirclean has ever been cut in two
    runs, edits, faults

vars == <<ppd, stamps, old, ext, work, obj, tree, before, since, listed,
          make, rms, todo, running, torn, runs, edits, faults>>
files == <<work, obj, tree, before, since>>
user == <<ppd, ext, runs, edits>>

Global == "output"
Tree == Package \cup {Global}

ASSUME GlobalAssumption == Global \notin Package
TreeOf(p) == IF ppd THEN p ELSE Global

Helper == {"reinstall", "rebuild", "reconfigure"}
Command == {"all", "pkg", "dirclean"} \cup Helper

(* No run, or one that has failed.                                         *)
NoRun == [cmd |-> "none", pkg |-> Global, jobs |-> 1, phase |-> "failed"]

Idle == make.phase \in {"ok", "failed"}

(* The user's sources of p.                                                *)
Wanted(p) == IF p \in Override THEN ext[p] ELSE work[p]

Init ==
    /\ ppd \in BOOLEAN
    /\ stamps = {}
    /\ old = {}
    /\ ext = [p \in Package |-> IF p \in Override THEN Pristine ELSE Absent]
    /\ work = [p \in Package |-> Absent]
    /\ obj = [p \in Package |-> Absent]
    /\ tree = [t \in Tree |-> [d \in Dir |-> [p \in Package |-> Absent]]]
    /\ before = {}
    /\ since = [p \in Package |-> {}]
    /\ listed = [p \in Package |-> {}]
    /\ make = NoRun
    /\ rms = <<>>
    /\ todo = {}
    /\ running = {}
    /\ torn = FALSE
    /\ runs = 0
    /\ edits = 0
    /\ faults = 0

-----------------------------------------------------------------------------

(* The user changes the sources of p once they have been built: those of   *)
(* an override outside, the others in the build directory.                 *)
Edit(p) ==
    /\ Idle
    /\ edits < MaxEdits
    /\ edits' = edits + 1
    /\ p \in Editable
    /\ obj[p] # Absent
    /\ IF p \in Override
       THEN ext' = [ext EXCEPT ![p] = Edited] /\ UNCHANGED work
       ELSE work' = [work EXCEPT ![p] = Edited] /\ UNCHANGED ext
    /\ UNCHANGED <<ppd, stamps, old, obj, tree, before, since, listed, make,
                   rms, todo, running, torn, runs, faults>>

Removals(cmd, p) ==
    CASE cmd = "reinstall" -> CleanForReinstall(p)
      [] cmd = "rebuild" -> CleanForRebuild(p)
      [] cmd = "reconfigure" -> CleanForReconfigure(p)
      [] cmd = "dirclean" -> IF ppd THEN <<"per-package", "build">> ELSE <<"build">>
      [] OTHER -> <<>>

(* .NOTPARALLEL without per-package directories.  A helper target of a     *)
(* package that has no stamps does what the package's own target does.     *)
Run(cmd, p, jobs) ==
    /\ Idle
    /\ cmd = "all" <=> p = Global
    /\ cmd \in Helper \cup {"dirclean"} => \E n \in stamps : n[1] = p
    /\ runs < MaxRuns
    /\ ~ppd => jobs = 1
    /\ runs' = runs + 1
    /\ make' = [cmd |-> cmd, pkg |-> p, jobs |-> jobs, phase |-> "read"]
    /\ rms' = Removals(cmd, p)
    /\ UNCHANGED <<ppd, stamps, old, ext, files, listed, todo, running, torn,
                   edits, faults>>

(* make looks at the stamps: after the removals when it runs one job at a  *)
(* time, at any moment of them when it runs several, as the helper target  *)
(* and the package are prerequisites side by side.                         *)
Goal == IF make.cmd = "all" THEN Node
        ELSE {n \in Node : n[1] \in {make.pkg} \cup Closure[make.pkg]}

Outdated ==
    {n \in Goal : \E s \in (Before[n[2]] \ {"rsynced"}) \cup {n[2]} :
        /\ <<n[1], s>> \in Node
        /\ <<n[1], s>> \notin stamps \/ <<n[1], s>> \in old}

ReadStamps ==
    /\ make.phase = "read"
    /\ make.cmd # "dirclean"
    /\ make.jobs = 1 => rms = <<>>
    /\ todo' = Outdated
    /\ make' = [make EXCEPT !.phase = "run"]
    /\ UNCHANGED <<user, stamps, old, files, listed, rms, running, torn, faults>>

(* rm -f of one stamp.                                                     *)
RemoveStamp ==
    /\ make.phase \in {"read", "run"}
    /\ rms # <<>>
    /\ Head(rms) \in Step
    /\ rms' = Tail(rms)
    /\ stamps' = stamps \ {<<make.pkg, Head(rms)>>}
    /\ old' = old \ {<<make.pkg, Head(rms)>>}
    /\ UNCHANGED <<user, files, listed, make, todo, running, torn, faults>>

(* rm -Rf of the per-package directory, then of the build directory.       *)
RemoveTree ==
    /\ make.phase = "read"
    /\ rms # <<>>
    /\ Head(rms) = "per-package"
    /\ rms' = Tail(rms)
    /\ tree' = [tree EXCEPT ![make.pkg] = [d \in Dir |-> [q \in Package |-> Absent]]]
    /\ UNCHANGED <<user, stamps, old, work, obj, before, since, listed, make,
                   todo, running, torn, faults>>

RemoveBuildDir ==
    /\ make.phase = "read"
    /\ rms # <<>>
    /\ Head(rms) = "build"
    /\ rms' = Tail(rms)
    /\ stamps' = {n \in stamps : n[1] # make.pkg}
    /\ old' = {n \in old : n[1] # make.pkg}
    /\ work' = [work EXCEPT ![make.pkg] = Absent]
    /\ obj' = [obj EXCEPT ![make.pkg] = Absent]
    /\ before' = before \ {make.pkg}
    /\ since' = [since EXCEPT ![make.pkg] = {}]
    /\ listed' = [listed EXCEPT ![make.pkg] = {}]
    /\ make' = [make EXCEPT !.phase = "ok"]
    /\ UNCHANGED <<user, tree, todo, running, torn, faults>>

-----------------------------------------------------------------------------

(* per-package-rsync: the trees of the packages in Q, in order, over the   *)
(* tree `into'.  It fails when one of them is not there.                   *)
Present(q) == \E d \in Dir, x \in Package : tree[q][d][x] # Absent

Rsync(Q, into) ==
    [d \in Dir |-> [x \in Package |->
        LET from == {i \in DOMAIN Order : Order[i] \in Q /\ tree[Order[i]][d][x] # Absent}
        IN  IF from = {} THEN tree[into][d][x]
            ELSE tree[Order[CHOOSE i \in from : \A j \in from : j <= i]][d][x]]]

(* Mutant of PrepareDirs: the configure step does not copy its             *)
(* dependencies' files.                                                    *)
PrepareDirsForgets(p, s) ==
    /\ tree' = IF ppd /\ s \in Preparing \ {"configured"}
               THEN [tree EXCEPT ![p] = Rsync(Deps[p][s], p)]
               ELSE tree
    /\ before' = IF s = "configured" THEN before \cup {p} ELSE before
    /\ since' = IF s = "configured" THEN [since EXCEPT ![p] = {}] ELSE since

(* Mutant of PrepareDirs: pkg_size_before comes first, so that the copied  *)
(* files count as installed since.                                         *)
PrepareDirsAfterListing(p, s) ==
    /\ tree' = IF ppd /\ s \in Preparing
               THEN [tree EXCEPT ![p] = Rsync(Deps[p][s], p)]
               ELSE tree
    /\ before' = IF s = "configured" THEN before \cup {p} ELSE before
    /\ since' = IF s = "configured" THEN [since EXCEPT ![p] = Deps[p][s]] ELSE since

(* prepare-per-package-directory, at the start of a step; then, for the    *)
(* configure step, pkg_size_before.                                        *)
PrepareDirs(p, s) ==
    /\ tree' = IF ppd /\ s \in Preparing
               THEN [tree EXCEPT ![p] = Rsync(Deps[p][s], p)]
               ELSE tree
    /\ before' = IF s = "configured" THEN before \cup {p} ELSE before
    /\ since' = IF s = "configured" THEN [since EXCEPT ![p] = {}] ELSE since

(* pkg_size_after, at the start of the last step: without .before, comm    *)
(* fails in a pipeline and .files-list.txt is empty.                       *)
ListFiles(p, s) ==
    IF s = "installed"
    THEN /\ listed' = [listed EXCEPT ![p] = since[p]]
         /\ before' = before \ {p}
         /\ since' = [since EXCEPT ![p] = {}]
         /\ UNCHANGED tree
    ELSE PrepareDirs(p, s) /\ UNCHANGED listed

Runnable(p, s) ==
    /\ make.phase = "run"
    /\ <<p, s>> \in todo \ running
    /\ Cardinality(running) + (IF rms = <<>> THEN 0 ELSE 1) < make.jobs
    /\ Reach[p][s] \cap todo = {}

Start(p, s) ==
    /\ Runnable(p, s)
    /\ s \in Preparing /\ ppd => \A q \in Deps[p][s] : Present(q)
    /\ ListFiles(p, s)
    /\ running' = running \cup {<<p, s>>}
    /\ UNCHANGED <<user, stamps, old, work, obj, make, rms, todo, torn, faults>>

(* rsync finds no tree to copy.                                            *)
PrepareFails(p, s) ==
    /\ Runnable(p, s)
    /\ ppd
    /\ s \in Preparing
    /\ \E q \in Deps[p][s] : ~Present(q)
    /\ make' = [make EXCEPT !.phase = "stop"]
    /\ UNCHANGED <<user, stamps, old, files, listed, rms, todo, running, torn, faults>>

(* What the commands of the recipes in D do.                               *)
Effects(D) ==
    /\ work' = [p \in Package |->
                    IF <<p, "extracted">> \in D THEN Pristine
                    ELSE IF <<p, "rsynced">> \in D THEN ext[p] ELSE work[p]]
    /\ obj' = [p \in Package |-> IF <<p, "built">> \in D THEN work[p] ELSE obj[p]]
    /\ tree' = IF \A n \in D : n[2] \notin Kind THEN tree
               ELSE [t \in Tree |-> [d \in Dir |-> [p \in Package |->
                        IF t = TreeOf(p) /\ \E s \in Installing(p, d) : <<p, s>> \in D
                        THEN obj[p] ELSE tree[t][d][p]]]]
    /\ since' = [p \in Package |->
                    since[p] \cup {q \in Package : /\ p \in before
                                                   /\ TreeOf(q) = TreeOf(p)
                                                   /\ <<q, "target">> \in D}]
    /\ UNCHANGED before

(* check-bin-arch, over the files of the list.                             *)
ArchChecked(p, s) == s = "installed" => listed[p] \cap BadArch = {}

Touch(p, s) ==
    /\ stamps' = stamps \cup {<<p, s>>}
    /\ old' = (old \ {<<p, s>>}) \cup {n \in stamps : n[1] = p /\ s \in Normal(n[2])}

Finish(p, s) ==
    /\ <<p, s>> \in running
    /\ ArchChecked(p, s)
    /\ Effects({<<p, s>>})
    /\ Touch(p, s)
    /\ todo' = todo \ {<<p, s>>}
    /\ running' = running \ {<<p, s>>}
    /\ UNCHANGED <<user, listed, make, rms, torn, faults>>

(* Mutant of Fail: the stamp is touched all the same.                      *)
FailTouches(p, s) ==
    /\ <<p, s>> \in running
    /\ \/ ~ArchChecked(p, s) /\ UNCHANGED faults
       \/ faults < MaxFaults /\ faults' = faults + 1
    /\ \E D \in SUBSET {<<p, s>>} : Effects(D)
    /\ Touch(p, s)
    /\ running' = running \ {<<p, s>>}
    /\ make' = [make EXCEPT !.phase = "stop"]
    /\ UNCHANGED <<user, listed, rms, todo, torn>>

(* A recipe ends without touching its stamp, its commands done or not.     *)
Fail(p, s) ==
    /\ <<p, s>> \in running
    /\ \/ ~ArchChecked(p, s) /\ UNCHANGED faults
       \/ faults < MaxFaults /\ faults' = faults + 1
    /\ \E D \in SUBSET {<<p, s>>} : Effects(D)
    /\ running' = running \ {<<p, s>>}
    /\ make' = [make EXCEPT !.phase = "stop"]
    /\ UNCHANGED <<user, stamps, old, listed, rms, todo, torn>>

-----------------------------------------------------------------------------

(* The end of a run.  target-finalize copies every package's tree into     *)
(* the global directories.                                                 *)
Finalize ==
    /\ make.phase = "run"
    /\ todo = {}
    /\ rms = <<>>
    /\ IF make.cmd = "all" /\ ppd
       THEN IF \A q \in Package : Present(q)
            THEN /\ tree' = [tree EXCEPT ![Global] = Rsync(Package, Global)]
                 /\ make' = [make EXCEPT !.phase = "ok"]
            ELSE UNCHANGED tree /\ make' = NoRun
       ELSE UNCHANGED tree /\ make' = [make EXCEPT !.phase = "ok"]
    /\ UNCHANGED <<user, stamps, old, work, obj, before, since, listed, rms,
                   todo, running, torn, faults>>

(* After an error make waits for the recipes that run.                     *)
Stop ==
    /\ make.phase = "stop"
    /\ running = {}
    /\ make' = NoRun
    /\ rms' = <<>>
    /\ todo' = {}
    /\ UNCHANGED <<user, stamps, old, files, listed, running, torn, faults>>

(* ^C, or the machine goes down: some of the running recipes had done      *)
(* their work.                                                             *)
Interrupt ==
    /\ ~Idle
    /\ faults < MaxFaults
    /\ faults' = faults + 1
    /\ \E D \in SUBSET running : Effects(D)
    /\ torn' = (torn \/ (make.cmd = "dirclean" /\ ppd))
    /\ make' = NoRun
    /\ rms' = <<>>
    /\ todo' = {}
    /\ running' = {}
    /\ UNCHANGED <<user, stamps, old, listed>>

Recipe == \E n \in todo : Start(n[1], n[2]) \/ PrepareFails(n[1], n[2])
                            \/ Finish(n[1], n[2]) \/ Fail(n[1], n[2])

Make == \/ ReadStamps \/ RemoveStamp \/ RemoveTree \/ RemoveBuildDir
        \/ Recipe \/ Finalize \/ Stop

Next ==
    \/ \E p \in Package : Edit(p)
    \/ \E cmd \in Command, p \in Tree, jobs \in 1 .. MaxJobs : Run(cmd, p, jobs)
    \/ Make
    \/ Interrupt

Spec == Init /\ [][Next]_vars

(* make goes on as long as it can, and every recipe ends.                  *)
FairSpec == Spec /\ WF_vars(Make)

-----------------------------------------------------------------------------

(* While a package is configured, built or installed, everything that its  *)
(* configure step depends on is installed and up to date, and no recipe of *)
(* it runs, however parallel make is and whatever failed, was removed or   *)
(* was interrupted before.                                                 *)
DependenciesQuiet ==
    \A n \in running : n[2] \notin Source \cup {"rsynced"} =>
        \A q \in Needs[n[1]]["configured"] :
            /\ <<q, "installed">> \in stamps \ old
            /\ \A m \in running : m[1] # q

(* The per-package directory of a configured package holds the files of    *)
(* all its dependencies, those of its dependencies' dependencies included, *)
(* and nobody else's; unless a -dirclean is, or has been left, half done.  *)
TreeIsClosure ==
    ppd /\ ~torn /\ ~(make.cmd = "dirclean" /\ ~Idle) =>
        \A p \in Package, d \in Dir :
            /\ <<p, "configured">> \in stamps =>
                \A q \in Needs[p]["configured"] :
                    Installing(q, d) # {} => tree[p][d][q] # Absent
            /\ \A q \in Package :
                tree[p][d][q] # Absent => q \in Closure[p] \cup {p}

(* With per-package directories a package's list of files names its own    *)
(* files only.                                                             *)
ListsOwnFiles == ppd => \A p \in Package : listed[p] \subseteq {p}

(* When `make all' has succeeded, every stamp is there and none is out of  *)
(* date, and the target directory has some version of every package.       *)
AllMeansAll ==
    make.cmd = "all" /\ make.phase = "ok" =>
        /\ stamps = Node
        /\ old = {}
        /\ ~torn => \A p \in Package :
                "target" \in Kinds[p] => tree[Global]["target"][p] # Absent

(* When foo-rebuild or foo-reconfigure has succeeded, what is installed    *)
(* was built from the sources as the user had left them.                   *)
Fresh(p) == "target" \in Kinds[p] => tree[TreeOf(p)]["target"][p] = Wanted(p)

RebuildIsFresh ==
    [][make.cmd \in {"rebuild", "reconfigure"} /\ make'.phase = "ok" /\ ~Idle
        => Fresh(make.pkg)']_vars

(* So it is when make runs one job at a time.                              *)
SerialRebuildIsFresh ==
    [][make.cmd \in {"rebuild", "reconfigure"} /\ make'.phase = "ok" /\ ~Idle
        /\ make.jobs = 1 => Fresh(make.pkg)']_vars

(* When `make all' succeeds after that, the image has it too.              *)
ImageIsFresh ==
    make.cmd = "all" /\ make.phase = "ok" =>
        \A p \in Package : tree[Global]["target"][p] = tree[TreeOf(p)]["target"][p]

(* Every run of make ends: no two packages or steps wait for each other.   *)
EveryRunEnds == ~Idle ~> Idle

=============================================================================
