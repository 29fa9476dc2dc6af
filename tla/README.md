# Models of the STM32MP157A-DK1 build system

This directory holds TLA+ models of the program in this repository, the TLC
configurations that check them on small instances, and theorems about them
that TLAPS proves for every value of their constants. Paths in this file are
relative to `src/buildroot-2022.02.3/` unless they start with `src/`.

The repository is a Linux distribution for one board. Almost all of its 12,000
files are data: package recipes, patches to third-party programs, documentation.
The program that works on them is Buildroot's core (make, shell, and kconfig in
C), and a handful of shell scripts of the repository's owner. What is hard about
it is state that outlives a run and is shared: a download directory shared by
concurrent builds, git caches, stamp files and trees that a user rebuilds
piecemeal and interrupts, a configuration that is calculated on demand, edited
in any order and written by one program and read by the next. That is what the
models are about.


## 1. Inventory

### Downloads: `support/download/dl-wrapper`, `check-hash`, `package/pkg-download.mk`

State: the files of one subdirectory of `BR2_DL_DIR`; the lock file beside
them; a temporary directory in the build tree and a temporary file beside the
final one for each running wrapper.

Operations: a package's download step runs `dl-wrapper` under `flock`, with a
list of URIs. The wrapper links the file from the old flat directory, checks a
file that is there, and otherwise tries the URIs in turn: backend, optional
post-process, `check-hash`, copy next to the final name, rename. `check-hash`
reads the `.hash` file line by line and exits at the first line about the file
that it cannot verify.

Interaction: several trees and several packages use one directory at the same
time; the extract step reads the file later, without the lock.

Hard: kills at every step, failing local commands (some handled, others left to
`set -e`, which ends the script with its temporaries in place), bad servers, bad
files already there.

What makes it correct: what a request has been promised is there and right for
as long as it is needed; no partial file under a final name and no clutter; one
good location is enough; everybody who waits for the lock gets it.

### Git backend: `support/download/git`

State: per package, a git repository kept between downloads, with its working
tree and those of submodules; an environment variable that remembers a restart.

Operations: init, set the remote, fetch, verify the changeset, drop submodule
working trees, checkout, clean, submodule update, archive. An ERR trap removes
the cache and executes the script anew, once; inside a command substitution it
does so in the subshell, and the run outside goes on or fails on its own.

Hard: anything may have been left in the cache by earlier requests for other
changesets, kills (in the middle of a removal too) and users. What makes it
correct: archives hold exactly the changeset, the cache heals, no endless restart, no needless loss of the cache.

### Package build: `package/pkg-generic.mk`, `package/pkg-utils.mk`, top `Makefile`

State: a stamp file per package and step, with its age relative to others; the
build directories; the global or per-package host and target trees; the lists
of installed files.

Operations: the recipes (download, extract, patch, rsync, configure, build,
four kinds of install, the last step); the targets `foo-reinstall`,
`foo-rebuild`, `foo-reconfigure`, `foo-dirclean`; `make all` with
`target-finalize`; with per-package directories make runs `-jN`.

Interaction: a step waits for the last step of other packages and copies their
trees; `make` decides by looking at stamps that other rules remove at the time.

Hard: parallel recipes, failures and interrupts between two commands of a
recipe, any sequence of partial rebuilds. What makes it correct: dependencies
are installed and at rest while a package is made; trees hold what dependencies
provide; success means that everything asked for has been built from the
present sources.

### Patch step: `.stamp_patched` in `package/pkg-generic.mk`, `support/scripts/apply-patches.sh`

State: the sources, the list of applied patches, the stamp. Operations: the
recipe calls the script for one place after another; the script walks
directories, archives and series files, refuses duplicates, puts each patch on
the list and calls `patch`. Hard: an interrupt or a refusal between the list and
the patch, the second make on what was left, names that are searched for as
regular expressions, and a pipeline of which only the last command is asked. What
makes it correct: nothing is built that has a patch twice, in part, out of order, or
not at all.

### Kconfig's core: `support/kconfig/expr.c`, `menu.c`, `symbol.c`, `confdata.c`

State: the tree of menus; each symbol's type, conditions, prompts, selects and
implies; its calculated and user value with the flags `SYMBOL_VALID`,
`SYMBOL_DEF_USER`, `SYMBOL_WRITE`; the change count; the files `.config`,
`.config.old`, `auto.conf`, `autoconf.h`, the headers in `include/config`, and
defconfigs.

Operations: the parser builds the tree; `menu_finalize` propagates conditions,
simplifies them and builds submenus; `sym_check_deps` looks for recursion;
`sym_calc_value` computes values on demand and caches them; the `sym_set_*`
functions accept or refuse a user's value and invalidate what may depend on it;
`conf_read`, `conf_write`, `conf_write_defconfig` and `conf_write_autoconf` move
configurations between symbols and files. `expr.c` is the algebra under it all.

Hard: a few hundred lines of rewriting rules over three-valued logic;
destructive simplification of two trees at a time; a recursive cache with
choices that calculate their members and members that calculate their choice;
`.config` replaced by two renames; a defconfig that leaves out what a second
calculation of defaults gives. What makes it correct: simplification never
changes what a condition means; entries can be reached; a cached value is up to
date; what is written reads back as it was; a crash never costs the configuration.

### Kconfig's programs: `conf.c`, `mconf.c`, `nconf.c`, `gconf.c`, `qconf.cc`

State: `conf` has a walk over the menus in progress and a mode; `mconf` and
`nconf` have screens on top of one another; `gconf` and `qconf` have views with
rows that copy what the menus said when they were last updated. All have the
name of the file and the change count.

Operations: every question and answer; every key or click that changes a value;
going through the menus and back; loading, saving, saving under another name,
failing to do so, leaving with or without saving.

Hard: rows that are updated in place; flags that say which texts are stale and
are shared by two lists; change counting over any order of loads, saves and
edits; drawing a menu calculates values and thereby changes them; asking until
there is nothing new. What makes it correct: no change is lost without a
warning; what is loaded is as in a fresh program; rows show what there is; every
run ends.

### Scripts of the repository: `src/build_scripts/*.sh`, the board's overlay, `post-image.sh`

State: the build counter `src/build_scripts/build`, the motd made from it, the
images of the output directory, releases named after the version, a card, and
on the board the file that enables the expansion of the root filesystem.

Operations: increment and embed the version, clean and build, plain `make`, make
a release, write a card; boot the board, grow partition and filesystem.

Hard: straight-line shell without error handling: a kill or a power cut between
two commands, commands that fail and are followed by the next. What makes it
correct: versions are not given twice (`src/README.md:32` says that the
number always increases; section 6 has two cases in which it does not), a release
holds the image it is named after, the expansion is either done or will be tried
again.

### The rest

`PROJECT.json` lists every other part with the reason why it is not modelled:
the backends other than git (one external command each), makedevs, mkusers, the
toolchain wrapper, filesystem images, the package infrastructures (they fill in
commands of the generic steps), the generated parser, reports, developer tools,
tests and data.


## 2. Modules

| module | models | state | proofs |
| --- | --- | --- | --- |
| `CheckHash` | `check-hash`'s answer, declaratively (`ExitCode`) | none | used by `CheckHash_proofs` and the downloads |
| `CheckHashLoop` | its loop, line by line | line number, count, exit code | `CheckHash_proofs` |
| `DlStore` | what the download directory promises: an atomic store | files, delivered requests | |
| `Download` | `pkg-download.mk` and `dl-wrapper` under flock | files, lock, one pc per request, temporaries | `Download_proofs` |
| `GitCache` | `support/download/git` | the cache, one pc, what failed | `GitCache_proofs` |
| `PackageSteps` | the rules that pkg-generic.mk writes: steps, prerequisites, what helpers remove | none | |
| `PackageBuild` | make running them, trees, file lists, user, failures | stamps, trees, the run of make | `PackageBuild_proofs` |
| `Patches` | the patch step and apply-patches.sh | sources, list, stamp, the walk | `Patches_proofs` |
| `Board` | the scripts of the repository, the images, the card, the board | counter, motd, job, output, archives, releases, card | `Board_proofs` |
| `KconfigRules` | the rules of `expr.c` on one level of an expression | none | `KconfigRules_proofs` |
| `KconfigExpr` | `expr.c` on whole expressions | none (recursive) | as functions, in `KconfigRules_proofs` |
| `KconfigMenu` | `menu_finalize` of `menu.c` | blocks, entries, reverse dependencies, submenus | |
| `KconfigSymbol` | `symbol.c` | the table, the symbols' values and flags | |
| `KconfigFile` | `confdata.c`: files from symbols and back | none of its own | |
| `KconfigView` | `menu_is_visible` and the tree of entries | the files | |
| `ConfFiles` | what `conf` promises about its files, whatever the configuration means | files as sets of lines, headers to touch | `ConfFiles_proofs` |
| `KconfigConf` | `conf.c` and the file operations of `confdata.c` | its calls, headers touched | by refinement of `ConfFiles` |
| `KconfigSession` | what a user of any interactive front end does to values and files | the program, its screens, what was said | |
| `KconfigText` | `mconf.c`, `nconf.c` | screens, one on top of another | |
| `KconfigWindows` | what the two windowed programs share | views with rows | |
| `KconfigGtk`, `KconfigQt` | `gconf.c`, `qconf.cc` | | |
| `KconfigFrontends` | the four front ends as one specification | | |

`MC*` modules give the constants their values for TLC. What composes what:

- `Download` EXTENDS `CheckHash` and instantiates `DlStore` with a refinement
  mapping. `GitCache` is one of the backends that `Download` lets give any
  content or fail; it runs under `Download`'s lock, which is why it has one
  request at a time.
- `PackageBuild` EXTENDS `PackageSteps` and takes its first step, the download,
  to be what `Download` promises: it gives the sources or fails.
- `Board` EXTENDS `Patches`: the patch step of a package is one of the steps of
  the build that motd_script.sh and build_buildroot.sh start.
- `KconfigRules` is extended by `KconfigExpr`, which has everything recursive; that
  is extended by `KconfigMenu` and by `KconfigSymbol`, the latter
  by `KconfigFile`, `KconfigView`, and then `KconfigConf` on one side and
  `KconfigSession` on the other; `KconfigText` and `KconfigWindows` extend the
  session, `KconfigGtk` and `KconfigQt` the windows, `KconfigFrontends` all.

- `KconfigConf` instantiates `ConfFiles` with a refinement mapping: a file of the
  model, a function from names to values, is the set of its lines.

Each definition's lines of source are listed in `PROJECT.json` under `map`.

### Download

One action per step of the wrapper that another process or a kill can tell
apart: `Flock`, `Legacy` (link from the old directory), `Copied` (end of the
`cp` that replaces a failing `ln`), `Existing`, `Unlink`, `TryUri`, `Backend`,
`PostProcessStep`, `Check`, `MkTemp`, `Cat`, `RmTmpd`, `Mv`, `Release`; `Stop`, the
end that `set -e` makes of an `rm` or a `chmod` that fails; and of
the surroundings `Kill`, `Extract`, `Ask`. `dl` is the directory, `tmpd`, `tmpf`
and `tmpo` the temporaries, `rc` the exit status (`Stuck` after `Stop`), `litter` how
wrappers ended that left a `tmp_output` behind. `LocalFaults` lets ln, cp, mktemp,
chmod, cat, mv and rm fail. Contents are members of a small set and a digest
is a table. Initially the directory holds anything.

`SameHashes`, that all trees sharing a directory list the same hashes, is an
assumption of two theorems and true of the instance. Without it one tree may
remove the file that another one has just been promised, which nothing in the
code prevents.

### GitCache

`damage` says what is wrong with the repository: a left-over `index.lock`, a
broken repository in which any command may fail, or a commit that cannot be
read. `index` is what is checked out, `disk` and `sub` the working trees: `sub` is a
commit of the submodule, nothing, `Rest` (files that `git submodule foreach` does not
find, as they have no repository or no index names them) or `Mixed` (a working copy
with other files in it). What a command leaves that is killed, or fails when there is
no restart left, is `CutShort`: a checkout or a clean that has changed some
of the files, a removal of a submodule that leaves a `Rest`, a removal of the
cache that leaves any part of it (`Torn`).

The ERR trap inside a command substitution (`Traps`: the log of line 190, the list of
submodules at 203, the sed at 205, the date at helpers:48) starts a nested run there.
`outer` names the substitution while it runs, and in `exit` it has ended: the
run outside goes on (`GoesOn`, `TarGoesOn`) or fails (`FailsAfter`) as the shell has it
for an assignment and for the words of a `for`. Its working directory is gone then;
`ground` says whether the nested run has made a whole cache in its place, and `Astray`
is what fails for lack of a directory or of a date. Changesets do not move.

### PackageSteps and PackageBuild

make is external. It looks at the stamps (`ReadStamps`), for a helper target run
with `-jN` at any moment of the removals, because `foo-rebuild` has
`foo-clean-for-rebuild` and `foo` as prerequisites side by side. It starts a
recipe (`Start`) when everything before it is done and a job is free (`Before` of
a step is the least set with its prerequisites and theirs), and after
an error waits for those that run (`Stop`). A recipe begins with the copy of
dependencies' trees and the file lists and ends (`Finish`) with its effects and
its stamp, or fails (`Fail`), its effects done or not. `old` is the set of
stamps that are older than a prerequisite. Files are versions of a package:
pristine, edited or absent. Installing replaces files, as `install` and `cp`
into a fresh tree do; writing them in place, through the hard links that
rsync shares between trees, is not modelled. After a `-dirclean` cut in two
(`torn`) two properties are not claimed, as the tree is gone and the stamps are
not.

### Patches and Board

`Patches` has one action per thing the recipe or the script does that an
interrupt can tell apart: a patch is put on the list, `patch` begins, ends, or
refuses; what `patch` leaves when it is cut off is the patch in part. When the
decompressor or `cat` fails, `patch` is content with what it has got, and the patch is
short (`Short`). `Matches` is what grep makes of a name as a regular expression;
`Findable` says that names of patches that are wanted find themselves. Every
restart begins with the sources, the list and the stamp as they were left.
`Under(l, cs)` are the directories that the calls `cs` reach in a layout `l`, the
least set with their archives in it, and `PatchesIn` the patches there.

In `Board` a script is a sequence of commands (`Script`), one action each; the
truncation and the writing of a redirected file are two, and so are the removal of the
images and of the build directory by `make clean`. A killed script stops;
a failing command is followed by the next one where the script does not look:
each reading and each writing of the counter and of motd, `tar` and `mv` (`Fails`), with
`job.status` to tell. `archives` are those that a release has made among the images
and not moved; what has the name is moved, whichever run has made it.
`settled` says that the last make came to its end and the numbering was left
alone since; `hurt`, that a command failed or power was cut while a card was
being expanded. A removal on the board may not have reached the disk when power
goes (`unsynced`).

### KconfigRules, KconfigExpr and KconfigMenu

Expressions are records; every function of `expr.c` that rewrites one is an
operator that returns the result, with pairs for those that rewrite two. What such a
function does to one level (replace `a && n` by `n`, join two operands, push a
negation down) is an operator of `KconfigRules`. So is the body of every recursion:
`TransformStep(Trans(_), e)` is `expr_transform` on e when `Trans` is what it makes
of the expressions below, and `JoinRound` is one comparison of two operands in
the loops of `expr_eliminate_dups1`. Nothing in `KconfigRules` is recursive, so that
it can be proved about; `KconfigExpr` closes each recursion in a line or two.
`Value` is `expr_calc_value`. The C functions that modify both of their
arguments through pointers (`expr_eliminate_eq`, `expr_eliminate_dups1`) are
written as folds over rows and columns of the two trees' leaves, in the order
of the C recursion, because the order decides which operands are joined.

A behaviour of `KconfigMenu` opens blocks, also within blocks, defines symbols, and
builds the submenus; what was written is kept beside what kconfig makes of it and the
properties compare the two for every assignment of values. Symbols are bool or
tristate; comparisons with the constants `y`, `m`, `n` are comparisons of names
(`m` < `n` < `y`) as these have no type (expr.c:1065-1075).

Two remarks on the code. The comment at expr.c:561 says that
`(a!='m') && (a!='n')` becomes `a='m'`; the code makes it `a='y'`, which is
right, and `DependencyKept` fails with what the comment says. And
`expr_trans_bool` takes `FOO!=n` for `FOO` in the select of a bool too, so
`select C if A != n` gives C the value m where A is m, and what is written would
give y. `SelectKept` therefore counts m as y; no tristate exists in Buildroot's
own configuration.

### KconfigSymbol, KconfigFile, KconfigView

`table` is what the parser and `menu_finalize` deliver: per symbol its prompts,
defaults and ranges with conditions, `dir`, `rev` and `imp` (what it depends on,
what selects and what implies it), per choice its members, and per entry what is
below it. It is one of the constant `Tables`, each chosen to have a construct of
the language in it. `sym` is all the symbols' state in one record of functions
and sets: `cur` and `user` (calculated value, and `def[S_DEF_USER]`), `vis`,
`valid`, `has` (`SYMBOL_DEF_USER`), `write`, `pick` and `upick` (the member of a
choice, calculated and the user's), `mods`, `dirty` (the change count). A C
function that changes symbols is an operator from such a state to the next one;
`Calc` is `sym_calc_value` with the recursion, the flags and the order of the
code, so that a value that the C function finds in the cache is found there.

A number's or string's value is an integer; `Empty` is no text. Files are
functions from names to values; `KconfigFile` says which lines each writer
leaves out and what a reader makes of each line, of missing ones, and of lines
of members of a choice.

### KconfigConf

The mutual recursion of `conf` and `check_conf` is a list of calls that are still
to be made (`proc.calls`), so that each question is a step and the program may be
killed at it. File operations are single steps: `.config` written to a temporary
file, renamed to `.config.old`, replaced; the headers of changed symbols
one at a time, `autoconf.h`, `tristate.conf`, `auto.conf`. `Upgrade`
replaces the Config.in files between two runs.

`ConfFiles` has the order of these file operations alone, with any set of lines for
what `conf` has calculated. The files that `KconfigConf` has besides
(`tristate.conf`, a defconfig) and all of its questions are invisible there.

### The front ends

`ui` has the program, its screens (`ui.on`), the name of the file, whether hidden
entries are shown, the last failure, and what the user was told; `spent` counts
edits, file operations and turns of the view; `win` has the windows' views.
Every step is one key or click, with the redrawing that follows in the same step,
because redrawing looks at entries and that calculates values. Drawing is
modelled for this effect and, in `gconf` and `qconf`, for which rows there are and,
in `qconf`, what text they show; icons, colours and layout are not. `GtkUpdate`
and `QtUpdate` are the functions that update rows in place, with their early
returns.


## 3. Runs

All runs are exhaustive. States are distinct states.

| run | instance | states | what it shows |
| --- | --- | --- | --- |
| `download` | 3 requests (2 for one file with hashes, 1 for a crate without), a bad old file, 3 locations, 1 kill, 1 repeated request, failing local commands | 338k | soundness of what is delivered, no clutter, one good location suffices, refinement of `DlStore`, termination |
| `check_hash` | all `.hash` files of up to 3 lines over 2 known types, an unknown one and comments, 2 names, 2 digests | 65k | the loop answers `ExitCode`; a success is vouched for |
| `git_cache` | 3 changesets of 2 files with two submodule commits or none, and one that does not exist; 3 requests, 1 damage (lock, broken, commit, or files), 2 faults or kills | 1179k | archives exact but for two named cases, healing, cache kept, termination |
| `package_build` | host tool, library, program that needs both; serial or -j2; both settings of per-package directories; 2 runs of make from an empty or a built tree, 1 edit, 1 failure or interrupt | 583k | six properties of stamps and trees |
| `board` | a package with four layouts of patches; builds, makes, releases, burning and booting up to version 3; 2 faults | 2161k | patches applied once, numbers that grow, true releases, expansion |
| `kconfig_menu` | up to 3 symbols in an if, a menu or a choice, one of them in a block in another, 19 conditions | 22k | simplification keeps meaning; submenus are those of symbols that matter |
| `kconfig_symbol` | 8 tables of up to 6 symbols (selects, implies, choices, modules, ranges), any order of asking and setting; a choice with any two further dependencies | 21k | the cache is fresh, choices have a member, values stick, cycles are found |
| `kconfig_conf` | 3 tables, of which one is an upgrade of another; 2 runs in 8 modes with any answers, 3 first sets of files, 1 kill, 1 upgrade | 237k | refinement of `ConfFiles`, configurations survive and read back, headers are touched, runs end |
| `kconfig_frontends` | mconf and nconf on one table, gconf and qconf on another; 2 edits, 1 file operation, 2 turns | 93k | no change lost, fresh loads, rows that are those of the menus |
| `rebuild_race`, `image_stale`, `kconfig_stale` | see section 6 | | statements of the help, the manual and a comment that the code does not keep |

### Properties

`CheckHashLoop`: `AnswersExitCode` (early exits and the count add up to the
declarative answer), `SuccessVouched` (the header's promise).

`Download`: `ExtractSound` (a delivered file stays right until it is extracted,
whatever other requests do), `DlDirUncluttered` (no temporary beside the files
when a wrapper ends by itself, unless `set -e` ended it at a chmod or an rm), `GoodUriSucceeds` (one good location is enough,
whatever was there, was tried or was killed before), `Implements` (every step is
one of the store's or invisible), `EveryRequestEnds`.

`PackageBuild`: `DependenciesQuiet` (dependencies are installed, up to date and
have no recipe running while a package is configured, built or installed),
`TreeIsClosure` (per-package trees hold the files of all dependencies,
indirect ones too, and nobody else's), `ListsOwnFiles`, `AllMeansAll`,
`SerialRebuildIsFresh` (with one job, a rebuild installs what the user's sources
are), `EveryRunEnds`.

`GitCache`: `ArchiveIsExact` (with the files of a submodule that is not found, and a
nested run that failed, as exceptions), `SelfHeals` (a request fails only for a reason
outside the cache or for a commit that cannot be read), `CacheIsKept`,
`EveryRequestEnds`.

`Board` and `Patches`: `PatchedOnce` (what has the stamp has been given every patch
once, in order, none of them refused or cut off), `VersionsGrow`, `ReleaseIsTrue`,
`ExpandedWhenDone`; each names where the code does go wrong as its exception, and
says that there is no other: a decompressor that failed, names that do not find
themselves; a counter lost or not written; a disturbed make or a release whose own
command failed; a card hurt while it was expanded.

`KconfigMenu`: `DependencyKept` and `VisibilityKept` (simplified conditions have
the value of those written), `SelectKept`, `SubmenuDepends` (an entry goes below
another only if it never shows without the other being set or showing).

`KconfigSymbol`: `CyclesReported` (`sym_check_deps` reports the tables whose
graph has a cycle and no others; the graph is that of what values are calculated from,
but for implies and the bounds of ranges, and of the conditions of own implies), `CacheIsFresh` (a value marked as valid is
what a calculation from nothing gives), `ChoiceHasOne`, `SetSticks` (a value
that is accepted is the value then), `SetBackRestores` (setting a symbol and
setting it back restores everything).

`KconfigConf`: `RoundTrip`, `DefconfigSuffices`, `RunsEnd`; `WritesAsPromised`, that
every step is one of `ConfFiles` or invisible there, and the two promises stated in
`ConfFiles`: `ConfigKept` (the newest configuration is replaced by a complete one
only), `HeadersTouched` (nothing that changes in `auto.conf` goes without its header).

`KconfigFrontends`: `NothingUnsaved`, `LoadIsFresh`, `GtkRowsShow`, `QtRowsFresh`.

Every one of these is violated when a plausible bug is put into the code's
definitions: `PROJECT.json` lists one mutant per property and run, and the
mutated operators stand before the definitions they replace. Type
correctness is proved for `Download` and `GitCache`, and as part of the inductive
invariants of `CheckHashLoop`, `Board`, `Patches` and `PackageBuild`.

### Why the bounds are enough

Downloads: requests interact through a file and the lock only, so two requests
for one file show every interference and a third adds another file and the
post-process; one kill reaches every point of every wrapper, and one repeated
request the retry after it. The theorems remove these bounds.

Package build: every kind of dependency (extract, configure, staging, indirect)
occurs among three packages; two runs are a build and a partial rebuild of it,
starting from nothing or from what `make all` leaves, so that the second of
them sees every intermediate state that a failed first one leaves. A longer
history adds combinations of what two runs leave; that nothing hides there, nor
with more packages or jobs, is what the theorems about all five safety properties
show. The run `image_stale` may have a fault, which its counterexample does not need.

Git: three requests suffice to visit a changeset with a submodule, one with
another and one without, in any order, with two faults in between: a kill and one in the
request that meets what it left, or the two that a nested run takes to fail. Two
files are one that all changesets have and one that some have. The theorems remove
these bounds.

Board: three numbers are a build, a later one and one after a lost counter; two
faults are a fault and one in what repairs it. The theorems about patches,
numbers, releases and expansion remove these bounds. The layouts have a nested archive, a
name that occurs twice, one that finds another as a regular expression, one that does not
find itself, and a series that names a missing patch.

Kconfig: the rules of `expr.c` look at two leaves at a time; conditions were
chosen so that each of the rules of `expr_join_or`, `expr_join_and` and
`expr_transform` fires; three entries are what a submenu inside a submenu takes, and
a block in a block is what it takes for inherited conditions to be inherited again.
`sym_calc_value` looks at the symbols a symbol mentions: each table has chains of
three symbols, of which the middle one is set, and every flag that the function
tests. The tables of choices add any two dependencies among five symbols, so
that cycles run into, out of and through a choice; two more tables have the condition of
an own imply, alone and in a cycle. Two runs of `conf` are one
that leaves files (or is killed) and one that finds them; the theorems about
`ConfFiles` have any number of them for what is said of the files alone. In the front ends two
edits and a load or save come in every order; two turns of a view, which do not
change values, bring every pair of views one after the other, and three screens
a dialog over a menu over a menu.

### Fairness

`Download` is weakly fair in each request's `Step`: commands end, and backends
give up on dead peers (wget and git time out). That is enough though the lock is
contended, because a holder always goes on to `Release` and requests are
finite. Nobody owes a kill or a new request. `GitCache` and `PackageBuild` are
weakly fair in what the script or make does as a whole: a single process that
is never blocked for ever. `KconfigConf` assumes the same of `conf`, and that
the user answers its questions in the end, though not how. No fairness is assumed
of users otherwise, and none in `Board` and in the front ends, of which no liveness
is claimed.

The prover has no rule for ENABLED, so the theorems about termination take the
same fairness without it: the process is at rest again and again, or takes a step
again and again (`Scheduled`; `Progress` for the wrappers together, which is
weaker than fairness to each). `KconfigConf` is specified that way. Weak fairness
gives it where some step is possible whenever the process is not at rest:

- `GitCache` and `PackageBuild`: the theorems `FairRequestsEnd` and `FairRunsEnd`
  are about `FairSpec` itself and have just that as a hypothesis. It is plain for a
  script, each of whose commands may fail if nothing else; for make, where recipes
  wait for others, the theorem `NeverStuck` says what can be done in every state
  (`CanGoOn` lists the guards of make's actions).
- `Download`: who holds the lock can take a step in each of its states, and if
  nobody does then whoever waits can take the lock and keeps being able to
  until somebody has it; so an infinite stay of requests has infinitely many
  steps. The step from fairness to each request to `Progress` needs a quantifier
  moved over a temporal operator, which the prover cannot do: TLC checks
  `EveryRequestEnds` of `FairSpec`.


## 4. Proofs

All theorems hold for every value of the constants that satisfies the named
assumptions; TLAPS checks them to the last leaf.

`CheckHash_proofs`: `LoopAnswers` and `SuccessIsVouched`. The inductive
invariant adds to the properties that no line read so far is refuted and that
the count is positive exactly if a line about the file has been met (`LoopInv`):
with it, the first refuted line is the one at which the script stops.

`Download_proofs`, for any number of requests, files, locations and hashes:

- `Typing`, Spec => []TypeOK. The type of what a backend serves needs
  `IndexInv` (it runs on a location of the list), and `LockInv` says that a
  request is between the labels of `Inside` exactly when it holds the lock.
- `DeliveredStays`, Spec => []ExtractSound, under `SameHashes`. `ExtractSound`
  is not inductive: that `Mv` puts a right file there rests on what `Check`
  found several steps before (`JudgedInv`), that it replaces nothing on the file
  having been absent all the time (`AbsentInv`), that `Unlink` hurts nobody on
  the file being refuted (`RefutedInv`), and that the copy in place of
  `Copied` does not on nobody having been promised the file (`CopyInv`). Each of
  these is about a request inside the lock, and `LockInv` makes the steps of
  others leave it alone.
- `Refinement`, Spec => Implements, under `SameHashes`: `Find`, `Store`,
  `StoreUnknown`, `Adopt`, `Discard` and `Ask` of the store are steps of
  `Existing`, `Mv`, `Legacy` and `Copied`, `Unlink` and `Ask` of the wrapper,
  and all others are invisible. It uses the same invariant.

Without `SameHashes`:

- `Uncluttered`, Spec => []DlDirUncluttered. `OutputInv` says at which labels
  there may be a `tmp_output`, and that whatever leaves these labels other than
  by a kill or by `Stop` has removed or renamed it.
- `OneGoodUri`, Spec => []GoodUriSucceeds. `SearchInv` says that a request with
  a good location has not gone past it while it searches, and does not end
  otherwise than with success: a failing location only leads to the next, and
  at the good one the check cannot fail.
- `RequestsEnd`, Spec /\ Progress => EveryRequestEnds, for up to a thousand locations
  per request and a million requests, repeated ones included. A wrapper that holds
  the lock has a number of commands left (`Commands`), each lowers it, and the loop
  goes to locations it has not tried; a wrapper that ends, also by a kill, leaves
  fewer of those that wait and of those that may still ask. `Left` weighs the
  second against the first, so that a request that takes the lock lowers it too.

`PackageBuild_proofs`, for any packages without a cycle of dependencies, any
numbers of jobs, runs, edits and faults, with and without per-package directories:

- `ListsAreOwn`, Spec => []ListsOwnFiles, and `TreesAreIsolated`, Spec =>
  []OwnTree: the tree of a package has only files of packages it depends on
  (the second half of `TreeIsClosure`, and without its exceptions: a `-dirclean`
  cut in two does no harm here). Both from `OwnInv`: files get into a tree from
  its own package or from the trees of direct dependencies, and the closure of
  dependencies is transitive; and what was installed since the configure step,
  of which the list is made, is the package's own. That the copy of several
  trees over one another takes each file from one of them (`RsyncTakesOne`) rests on the last in the
  order having been there (`LastExists`).
- `DependenciesAreQuiet`, Spec => []DependenciesQuiet. `OrderInv` says what make's
  decisions have in common at every moment of a run: whatever comes after a stamp
  that is to be made is to be made as well (`UpClosed`), so nothing that a running
  recipe waited for can become due again (`Waits`); and a stamp of the goal that is
  not to be made is there and not older than what is before it (`UpToDate`), except
  while a helper target removes the stamps of its package. `UpClosed` survives the
  late reading of stamps because what is before a step is a closure
  (`BeforeIsTransitive`), and `Reach` of a step has all that comes before it in
  other packages.
- `TreesAreClosures`, Spec => []TreeIsClosure. `BuiltInv` ties stamps to files: a
  package whose sources are stamped has sources (`SourcesOK`), one that is stamped
  as installed has its files in its tree (`InstalledOK`), and one that is past the
  copy has in its tree the files of what it needs (`CopiedOK`). That the copy of
  direct dependencies' trees brings those of indirect ones rests on each of these
  having made its own copy, which `OrderInv` gives as each has been waited for.
- `AllIsAll`, Spec => []AllMeansAll, from both: at the end of `make all`
  `FinalizeMakesAll` has every package of the closure made, and `CopiedOK` of the
  global tree has their files.
- `SerialRebuilds`, Spec => SerialRebuildIsFresh: with one job the stamps that a
  helper target takes away are gone before any is read (`SerialOK`), so the steps
  from the sources on are all due, and each passes on what the user has written.
  `rebuild_race` shows that one job is needed.
- `NeverStuck`, Spec => [](~Idle => CanGoOn): no stamp waits for itself, and no job
  is lost. While nothing runs, a stamp that is to be made and has nothing to be
  made before it exists (`FirstToMake`): what comes before a step in its own and in
  other packages has no cycle (`ReachIsAcyclic`), because dependencies have none and
  the steps of a package have an order, so the finite set of what is due has a
  first element.
- `RunsEnd` and `FairRunsEnd`, EveryRunEnds for up to 400 million stamps: a removal is
  one step of make, a recipe two, and what is due only gets less once the stamps
  have been read (`Left`).

`Board_proofs`, for any number of builds, cards and faults:

- `NumbersGrow`, Spec => VersionsGrow: `Numbered` says where the number of the
  build that runs stands to those given and to the counter, at each command; that
  the number read again is none below those given holds also when it was not written.
- `ReleasesAreTrue`, Spec => ReleaseIsTrue: `Released` says which image is of
  the version in motd, at each command and while `settled` holds, and that the archive
  that is about to be moved is of this release when its own commands succeeded.
- `Expansion`, Spec => []ExpandedWhenDone: `CardInv` says what of partition, file
  system and enable file is done at each command of the script.

`Patches_proofs`, for any layout of directories, archives, series and patches, any
number of interrupts and restarts:

- `PatchesApplyOnce`, Spec => []PatchedOnce: what has the stamp has been given every
  patch that the calls of the script reach, once, none of them refused or cut off, and
  those of a directory in its order; under `Findable`, a condition on the names of the
  layout, and with patches that are short when the decompressor failed. Nothing but the list of patches survives an interrupt, and the sources are
  not made anew, so that a second attempt is bound to meet what the first has done.
  The invariant says that it then fails rather than going on: the list never tells
  less than was done to the sources (`Listed`), and while the step runs it either
  is going to come to a patch whose name is on the list, which it refuses
  (`Doomed`), or it is at its first attempt (`Clean`): exactly what is on the list
  has been applied (`Applied`), every other patch is still ahead (`Covered`), and
  in order (`InOrder`). `Walk` is what makes the last two hold at each step: an
  item that is still to be looked at is followed by the rest of its directory,
  and what was before it there has been met. That going into an archive takes
  none of the patches that are ahead off, and adds all of those in it, are lemmas
  about the closure `Under` (`OpenUnder`, `OpenPatches`).

`ConfFiles_proofs`, for any names, settings, numbers of runs and kills:

- `ConfigurationsSurvive`, FilesSpec => ConfigKept: of all steps two touch the
  configuration at hand; the first of the renames keeps it, as `.config.old`
  counts where `.config` is missing.
- `HeadersAreTouched`, FilesSpec => HeadersTouched. It needs `Heard`: a line that
  changes is of a symbol whose header has been touched or is on the list, and once
  the list is empty `autoconf.h` has the lines that `auto.conf` will get. A kill
  loses the list, but not `auto.conf`, with which the next run compares.

What these say of `conf` is by refinement: the step from `KconfigConf` to `ConfFiles`
(`WritesAsPromised`) is checked by TLC on the tables of the run, because what
`conf` writes and compares is calculated by recursive operators; the rest of the
argument, over any number of runs and kills, is proved.

`GitCache_proofs`, for any number of requests, changesets, files, submodule
commits, damages and faults. The inductive invariant `GInv` adds to the types

- `FetchedInv`: everything the remote has is fetched when a changeset is
  verified, and what is verified is what is later checked out;
- `TreeInv`: after the checkout the files of the changeset are right, and after
  the clean there are no others;
- `SubInv`: a working copy of a submodule that has a repository is there only while
  the index names a submodule. It is why removing the submodules of the *old* index,
  before the checkout, is enough, and it holds wherever a kill comes, because the
  index changes only at the checkout, when no such copy is left. What is not found
  (`Rest`) comes from faults and users alone, and gets past the clean only in a
  changeset with a submodule there;
- `StageInv`: which run it is, the first or a nested one, and where the first goes on
  beside the cache of another;
- `RestartInv`: how many restarts there have been at each such stage;
- `HealInv`: a run that the trap has started works on a cache without damage, unless
  something outside has failed.

From it follow `GitTyping` (`TypeOK`), `ArchivesAreExact` (`ArchiveIsExact`),
`TriesAreFew` (`FewRestarts`), `CacheStays` (the action property `CacheIsKept`)
and `CacheHeals` (`SelfHeals`, damaged commits included in `Damage` or not).
`FewRestarts` is in no run, but a consequence of the invariant: once in a
command substitution, once when what follows it fails, and once when the date of the
archive does. git:31 says "only once!", and that is true of each run that is not nested.

`RequestsEnd` and `FairRequestsEnd` of `GitCache_proofs` say that every request ends:
`Left` is the number of commands to the end of the script, and fourteen for each stage
that is still to come, of those that `StageInv` tells apart; every step lowers it,
the restarts and the end of a nested run too.

The termination theorems share their last argument. That every step lowers a
number gives, for each j, that a state with `Left <= j + 1` leads to one with
`Left <= j`; from there to any number is an induction over a temporal formula,
which the prover does not have. Two stages of n make one of 2n, so that
a few compositions reach 128 commands, a billion of make's steps, or the number
that a million requests take; these are the bounds that the theorems state.

`KconfigRules_proofs`, for any symbols, values of them, and expressions. E is any set of
expressions that has the operands of each, and `val` what `expr_calc_value`
makes of each when the symbols have the values v (`Calculated`: the equations of
`Value`).

- `JoinOrKeeps`, `JoinAndKeeps`: the two tables of rules for operands about one
  symbol give an expression with the value of both operands. The proofs fail when an
  entry is changed, and with what the comment at expr.c:561 says.
- `JoiningKeeps`: `expr_eliminate_dups1` writes both operands of a level in place.
  The level, however many operands it has, has the same value after each round.
- `CancellingKeeps`: a round of `__expr_eliminate_eq` takes a common operand off
  two levels; if what is left has one value then the two had one value
  before. With this for each round, what `expr_eq` finds equal has equal values,
  which is what `JoiningKeeps` has as a hypothesis for operands that are equal.
- `YnKeeps`, `TransformingKeeps`: y and n as operands, and the rules by which
  negations are pushed down and comparisons of bools replaced.
- `BareKeepsNo`: `expr_trans_bool` keeps whether an expression is n, below && and ||.
- `DependsMeansNo`: what `expr_depends_symbol` finds to depend on a symbol is n
  when the symbol is.

The second half of the module is about whole expressions, of any size. E is now the
set of all expressions: `Whole` says that `Expressions(E)` adds nothing to E and
that operands are of smaller height. A recursive operator of `KconfigExpr` appears as a
function on E that satisfies its equation, with the same body from `KconfigRules`
(`IsTransform`: `trans[e] = TransformStep(LAMBDA x : trans[x], e)`), a loop as a
sequence of rounds. `IsNesting` and `IsSize`, how deep levels are nested and how many
nodes an expression has, are measures the proofs need and no code.

- `EliminateYnKeeps`, `DependsSymbolMeansNo`, `WithoutSymbolSame`: by induction over
  height, from the rule in question. The last says that menu.c is right to skip an
  expression that does not contain the symbol.
- `TransformKeeps`: `expr_transform` keeps the value. Its recursion goes on in what
  it has just made (`!(a && b)` becomes `!a || !b`, transformed again), so that the
  induction also has to say that the result is normal, that negating what is normal
  and transforming that keeps the value, and that a normal expression stays as it is.
  `TransBoolKeepsNo` is about normal expressions only: `expr_trans_bool` does not
  keep below a negation whether an expression is n. `PropagatedKeeps` says why that is
  enough where menu.c calls it.
- `ExprEqMeansEqual`: `expr_eq`, `expr_eliminate_eq` and `__expr_eliminate_eq` call each
  other. The induction is over nesting: the operands of a level are less deep than the
  level, however its && or || are associated (`LeavesOf`). What cancelling takes off
  two levels has one value c, and each level is what remains joined with c
  (`CancelTakes`); if what remains is one symbol the levels are equal.
  `CancellingKeepsOrder` follows: cancelling keeps which of two expressions is
  never above the other, and y left of the second says that the first is not above
  it. menu.c:463-480 builds submenus on this test.
- `EliminateDupsKeeps`: any number of passes of `expr_eliminate_dups`. A pass
  replaces leaves of a tree in place while operands of the other operation are
  themselves simplified; the invariant of the rounds is that the level keeps its
  value and its operands stay less deep (`DupsOf`).
- `EliminateDupsEnds`: the loop of `expr_eliminate_dups` (expr.c:662-675) goes on while
  `trans_count` is not 0. A pass makes no tree larger; if it has counted nothing it
  has changed nothing, and else y or n is among the operands somewhere, which
  `expr_eliminate_yn` then takes away (`DupsSimpler`). So there are fewer passes than
  nodes. This needs that a marked operand stays marked, whatever later rounds do to it.
- `PropagatedKeeps` composes them as menu.c:387-398 does: the condition is transformed,
  joined by && with the dependency it inherits, simplified, and rewritten by
  `expr_trans_bool`. The result has the least of the two values, and is n exactly then
  after `expr_trans_bool` too. Between `expr_transform` and `expr_trans_bool` every pass
  has to keep expressions normal (`YnNormal`, and a conjunct of `DupsSimpler`); what is
  inherited is normal because it was made in the same way. `rewrite_m` comes before
  this and changes what the condition means: m becomes m && MODULES.

The run `kconfig_menu` checks the same functions where menu.c uses them
(`DependencyKept`, `VisibilityKept`). `expr_trans_compare` has no such theorem, as it
does not keep values: for a
tristate A that is m, `(!A)!=n` is y and the `A=n` that is made of it is n
(the rule is in the comment at expr.c:907). `SubmenuDepends` holds in the run nevertheless.

What stays with TLC:

- ENABLED, and so the liveness properties for `FairSpec` as it stands (see section 3);
- `RunsEnd` of `KconfigConf`, whose questions depend on calculated values;
- that the recursive operators of `KconfigExpr` are the functions the theorems are
  about: a module with a proof cannot extend one with recursive operators. Both have
  the same bodies, from `KconfigRules`;
- the properties of the modules about kconfig other than `ConfFiles` and
  `KconfigRules`. Their operators are recursive over menus and symbols, so
  that their statements (what `menu_finalize` makes of a whole menu, what the
  cache holds, that what is written reads back as it was, which rows a view has)
  would need these operators in the proof, and with them the refinement `WritesAsPromised`;
- `NothingUnsaved` and `LoadIsFresh`, whose substance is in what reading and writing
  do to the symbols, and so in the same operators.


## 5. Not modelled, and why

Listed part by part in `PROJECT.json`. The main omissions inside modelled parts:

- `dl-wrapper`: options, file modes, and how backends work.
- `git`: LFS, several submodules; references that move (git:141 ignores that the
  fetch of one is refused); a failing `mktemp` in mk_tar_gz (helpers:53), after which
  the output of a nested run would be the name of the temporaries.
- `pkg-generic.mk`: hooks, patch dependencies, `.stamp_actual_downloaded`, the
  computation of a package's variables, legal-info.
- `pkg-utils.mk:215`: `rsync --link-dest` makes the trees of packages share
  inodes; a recipe that writes a file in place would change it in all of them.
- `Makefile`: configuration and release targets, the clean-up of the target
  tree in `target-finalize`, overlays and post-build scripts.
- scripts: manifests, checksums and signatures, the search for the card's device, a
  `cd` or `mkdir` that fails (what follows then happens in another directory), a
  removal of a package's build directory by `make clean` that is cut in two,
  two builds at the same time (motd_script.sh:7-17 reads, increments and reads
  the counter again without a lock, so both may get one number).
- `expr.c`: printing, `expr_simplify_unmet_dep`.
- `menu.c`: symbols defined in several places, warnings, search, help texts.
- `symbol.c`: the symbol table, regular expressions, the texts of numbers and
  strings, expansion of `$NAME`; `SYMBOL_CHANGED`, which only redraws.
- `confdata.c`: the texts of lines, the list of default files, randconfig,
  `KCONFIG_ALLCONFIG`, a full disk, and a symbol whose type changes between two
  versions: its line of `auto.conf` may be dropped on reading (confdata.c:148-186), and
  then its header is not touched (900-913), which `HeadersTouched` does not see. `conf.c`: listnewconfig, randconfig, allmodconfig, alldefconfig.
- `mconf.c`, `nconf.c`: the mode with all menus in one, search by first letters,
  and the dialogs themselves (`lxdialog/`, `nconf.gui.c`): a session of the model
  is told which entry the user has chosen.
- `gconf.c`, `qconf.cc`: widgets, icons, settings, qconf's search window and its
  mark of new symbols.
- the parser (`zconf.y`, `zconf.l`): text to tree, without state of its own.


## 6. Where the code does not do what is said

Three runs end with a counterexample.

1. `rebuild_race`: "Restart the build from the build step" (Makefile:1159). With
   -jN the stamps are read while they are being removed, and the run may end with
   success and nothing rebuilt.
2. `image_stale`: after a rebuild, "run make or make all" recreates the image
   (docs/manual/rebuilding-packages.txt:127). With per-package directories the
   copies that dependents made of a library's files when they were configured
   are finalized over its new files.
3. `kconfig_stale`: "The SYMBOL_VALID bit is set in 'flags' when this is up to
   date" (expr.h:94-95). `conf_read` calculates everything from a number out of
   range, then drops that number and its flag only (confdata.c:464).

Other things met while modelling. Where a property has an exception, it is named.

Downloads and git:

- dl-wrapper:14-15 says that all temporaries are removed if anything goes wrong;
  a failing post-process ends the script by `set -e`, with its temporary
  directory left behind and the other locations not tried (`GoodUriSucceeds` is
  about requests without a post-process).
- dl-wrapper:63: when `ln` fails, `cp` writes the final name in place with
  `|| true`; cut short, and without a `.hash` file, it is delivered.
- dl-wrapper:4-6: a `chmod` (191) or an `rm` (204, 207, 214) that fails ends the wrapper by
  `set -e` with its `tmp_output` in the shared directory, where nothing removes it
  (`DlDirUncluttered`).
- git:30-34: a commit object that cannot be read is taken for one that does not
  exist (145-151), and no later request heals the cache (`SelfHeals`).
- git:176-177: a removal of a submodule that is cut off after `.git` leaves files that
  foreach, `checkout -f` and `clean -ffdx` all leave; without `-r` they get
  into the archive of a changeset that has a submodule at that place, with `-r` the
  clone fails for them or, if git has the repository already, mixes with them
  (`ArchiveIsExact`).
- git:31 says "only once!". The ERR trap inside `$( )` runs in the subshell, and the run
  outside, whose `BR_GIT_BACKEND_FIRST_FAULT` is not set, may start anew again
  (`FewRestarts`). At git:190, a nested run that succeeds gives its own output for a
  date, and nothing with `-q`, so that the archive has the date of today; at
  git:203 the status of the list is lost, and after a nested run that failed the script
  archives what that has left, be it nothing, and exits with 0 (`ArchiveIsExact`).

Build:

- The last step is not idempotent: pkg-generic.mk:152 makes the list again
  without its `.before`, so binaries of the wrong architecture, refused the first
  time (docs/manual/adding-packages-generic.txt:489), are accepted when make is
  run again.
- Makefile:238 includes `.config` before the rule at 584 has `syncconfig` bring it
  up to date: what that changes takes effect in the next run of make.

Patch step and scripts:

- After an interrupted or refused patch the step fails for ever ("duplicate")
  until `foo-dirclean`.
- The exit status of the decompressor or `cat` before the pipe is lost
  (apply-patches.sh:117): the package is stamped with a patch missing or short.
- apply-patches.sh:108 takes the name for a regular expression, and three patches of this
  tree do not find themselves: package/duma/0003-fix-C++14.patch,
  package/libb64/0002-Initialize-C++-objects.patch and
  package/fbterm/0003-C++11-compliance.patch. After one of these was refused, a second
  make does not stop at it (`Findable`).
- When the counter is cut off between its truncation and its writing, the next
  build is number 1 again, and when it cannot be written (motd_script.sh:9) line 17 reads
  the number of the last build, which is given twice (`VersionsGrow`);
  `src/README.md:32` says otherwise.
- A `tar` that fails in make_release.sh:34 leaves an archive cut short, or that of
  an earlier run, to be moved and signed (`ReleaseIsTrue`).
- A release is named after motd in the sources, not after the image
  (`ReleaseIsTrue`); `exit $?` at post-image.sh:35 is the status of `rm`;
  a second release of a version overwrites the first one's manifest; the
  directory of `cd checksums` in make_release.sh:105 does not exist, which does
  no harm as the file to sign is in the current one.
- expand_rootfs.sh removes its enable file before resize2fs has run
  (`ExpandedWhenDone`).

Kconfig's core:

- menu.c:432-434 says that entries of a submenu "all depend on sym". Below a
  symbol without a prompt they need not, and one whose prompt is visible is not
  reached by `conf` (tried with the repository's `conf`).
- `sym_check_deps` does not follow implies nor the bounds of ranges, so that
  cycles through these are not found.
- An optional choice that is set to y loses `SYMBOL_DEF_USER` at its first
  calculation.
- `sym_set_string_value` with the value that is remembered does not clear
  `SYMBOL_VALID` (symbol.c:715-716).
- `menu_is_visible` (menu.c:657-662), a question, sets `SYMBOL_DEF_USER`.
- `conf_write_defconfig` truncates the file in place and looks at no error.
- After a failed rename `conf_write` has cleared the flags it writes by, and the
  next save that succeeds writes an empty configuration (confdata.c:836); reading
  a missing file clears the change count (confdata.c:413). `NothingUnsaved`
  excepts sessions in which the user was told of such a failure (`ui.failed`).

Kconfig's programs:

- `conf_string` asks for ever when input has ended and the value is not valid
  (conf.c:130-161).
- mconf handles SIGINT by asking and writing in the handler (mconf.c:1002-1005),
  wherever the program is; its `child_count` is never reset.
- gconf: "yes" to saving at the end leaves even when saving failed; loading
  appends the new rows to the old; `update_tree` returns when the last row goes,
  and leaves out the entries that follow; the
  switch to the single view leaves the back button as it was, and at the top
  "back" goes through a null pointer (gconf.c:711); a click on a number's value
  makes it the user's; the split view updates the list with all that is below. `GtkRowsShow` is therefore about the
  full view, says that rows are right and not that none is missing, and excepts
  windows after a load.
- gconf and qconf do not count loading another file as a change; qconf's "save
  as" ignores the name; its mark of new symbols gets stale; its back button is
  off one level below the root (qconf.cc:1568).
- lxdialog's menubox (menubox.c:253-259), after the window was resized and the
  saved scroll no longer fits, sets `scroll` to 0 and leaves `first_item`, so that
  other rows are drawn than are taken. nconf's text window skips three lines when
  paging up, and does not show a last line without an end.


## 7. Plan

Done: downloads, the git cache, package build, the patch step and the scripts, with
their safety proved; that the git backend, make and the download wrappers come to an
end, and that make is never stuck, proved without ENABLED; kconfig from the algebra to
the four interactive front ends, with what `conf` promises about its files proved, and
that the simplification of expressions of any size keeps what they mean and ends.

Left, in this order:

1. The rest of `target-finalize` and `fs/common.mk`: what of the trees gets into
   an image, with overlays, and what the users' ids are (`mkusers`, as a function
   checked against a declarative one).
2. lxdialog's lists against the entries they draw, with resizes.
3. allmodconfig, randconfig and `KCONFIG_ALLCONFIG`; symbols with several prompts
   at different places of the menus.
