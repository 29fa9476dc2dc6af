--------------------------- MODULE GitCache_proofs ---------------------------
(***************************************************************************)
(* For any number of requests, changesets, files, faults and damages: the  *)
(* archives of the git backend are exact, it starts anew three times at    *)
(* most, does not lose a cache for nothing, heals the cache, and ends.     *)
(***************************************************************************)
EXTENDS GitCache, TLAPS

-----------------------------------------------------------------------------
(* The inductive invariant.                                                *)

FetchedInv ==
    /\ pc = "verify" => Exists \subseteq have
    /\ pc \in {"deregister", "checkout"} => cset \in have

(* The working tree that is to be archived is made.                        *)
Made == pc = "list" \/ (pc = "tar" /\ ground # "half") \/ (pc = "exit" /\ rc = 0)

(* The working tree: the files of the changeset after the checkout, and    *)
(* no others after the clean.                                              *)
TreeInv ==
    /\ pc = "clean" => index = cset /\ \A f \in Files[cset] : disk[f] = cset
    /\ pc \in {"log", "submodules"} \/ Made => index = cset /\ disk = Exact(cset)

(* The submodule, or the files in its directory that stay there.           *)
Proper ==
    \/ sub = IF recurse THEN Sub[cset] ELSE None
    \/ Sub[cset] # None /\ sub = IF recurse THEN Mixed ELSE Rest

(* The index always names the submodule whose working copy is there, so    *)
(* that it is found and goes; files that are not found come from faults    *)
(* and users alone.                                                        *)
SubInv ==
    /\ sub \in Rev \cup {Mixed} => index # None /\ Sub[index] # None
    /\ sub \in {Rest, Mixed} => faults > 0 \/ damages > 0
    /\ pc \in {"checkout", "clean"} => sub \in {None, Rest}
    /\ pc \in {"log", "submodules"} /\ ground = "own" =>
           sub = None \/ (sub = Rest /\ Sub[cset] # None)
    /\ pc \in {"submodules", "list"} => recurse
    /\ Made => Proper

(* Which run it is: the first, in the cache that it has entered or beside  *)
(* the one of a nested run; or one that the trap has started.              *)
StageInv ==
    /\ outer # "no" => second
    /\ pc = "exit" => outer # "no"
    /\ pc = "remove" => second
    /\ ground # "own" => outer = "no" /\ ~second /\ pc \in {"submodules", "tar", "idle"}
    /\ ground = "half" => pc \in {"tar", "idle"}

RestartInv ==
    /\ restarts <= 3
    /\ outer \in {"sed", "tar"} => restarts <= 2
    /\ outer \in {"log", "list"} \/ (ground # "own" /\ pc # "idle") => restarts <= 1
    /\ ~second /\ ground = "own" => restarts = 0
    /\ second \/ ground # "own" => restarts > 0

(* A run that the trap has started works on a new cache.                   *)
HealInv ==
    second /\ pc \notin {"idle", "remove"} => faulted \/ (damage = {} /\ sub # Rest)

GInv == TypeOK /\ FetchedInv /\ TreeInv /\ SubInv /\ StageInv /\ RestartInv /\ HealInv /\ ArchiveIsExact

LEMMA ArchiveType ==
    ASSUME NEW d \in [File -> Cset \cup {Junk, None}], NEW s \in Held
    PROVE  Content(d, s) \in Archive
BY DEF Content, Archive

LEMMA NoArchiveType == NoArchive \in Archive
<1>1. Empty \in [File -> Cset \cup {Junk, None}] /\ None \in Held
  BY DEF Empty, Held
<1> QED
  BY <1>1, ArchiveType DEF NoArchive

LEMMA InitGInv == Init => GInv
<1> SUFFICES ASSUME Init PROVE GInv
  OBVIOUS
<1>1. TypeOK
  <2>1. 0 \in Nat /\ 0 \in 0 .. MaxRequests /\ 0 \in 0 .. MaxDamages /\ 0 \in 0 .. MaxFaults
    BY GitAssumption
  <2>2. disk \in [File -> Cset \cup {Junk, None}]
    BY DEF Init, Empty
  <2> QED
    BY <2>1, <2>2, NoArchiveType DEF Init, TypeOK, Label, Where, Held
<1>2. FetchedInv /\ TreeInv /\ StageInv /\ RestartInv /\ HealInv /\ ArchiveIsExact
  BY DEF Init, FetchedInv, Made, TreeInv, StageInv, RestartInv, HealInv, ArchiveIsExact
<1>3. SubInv
  BY GitAssumption DEF Init, SubInv, Made
<1> QED
  BY <1>1, <1>2, <1>3 DEF GInv

-----------------------------------------------------------------------------
(* Steps.                                                                  *)

(* A step that ends the request with no archive, or begins a run.          *)
LEMMA NothingMade ==
    ASSUME pc' \in {"idle", "init", "remove"}
    PROVE  /\ FetchedInv' /\ TreeInv'
           /\ pc' # "idle" => ArchiveIsExact'
           /\ pc' = "idle" /\ rc' = 1 => ArchiveIsExact'
BY DEF FetchedInv, TreeInv, Made, ArchiveIsExact

(* The trap starts a run, or ends the one that it has started.             *)
LEMMA OnErrorKeeps ==
    ASSUME GInv, pc \notin {"idle", "exit", "remove", "verify"},
           NEW o \in Traps, OnError(o),
           UNCHANGED <<requests, damages>>, faulted' \in BOOLEAN, faulted => faulted',
           faults' \in 0 .. MaxFaults, faults' >= faults
    PROVE  GInv'
<1>1. /\ UNCHANGED cache /\ UNCHANGED asked /\ archive' = archive
      /\ TypeOK /\ SubInv /\ StageInv /\ RestartInv /\ HealInv /\ TreeInv
  BY DEF OnError, GInv
<1>2. o \in Where /\ (ground # "own" => o \in {"no", "tar"}) /\ (o = "list" => pc = "list")
  BY <1>1 DEF Traps, At, Where, StageInv
<1>3. faults \in Nat /\ damages \in Nat /\ faults' \in Nat /\ restarts \in Nat
  BY <1>1, GitAssumption DEF TypeOK
<1>4. CASE ~second
  <2>1. /\ second' = TRUE /\ restarts' = restarts + 1 /\ outer' = o
        /\ ground' = "own" /\ pc' = "remove" /\ rc' = rc
    BY <1>4 DEF OnError
  <2>2. TypeOK'
    BY <1>1, <1>2, <1>3, <2>1 DEF TypeOK, cache, asked, Label
  <2>3. SubInv'
    BY <1>1, <1>3, <2>1 DEF SubInv, Made, cache
  <2>4. StageInv' /\ HealInv'
    BY <2>1 DEF StageInv, HealInv
  <2>5. RestartInv'
    <3>1. restarts <= 1 /\ (ground = "own" => restarts = 0)
      BY <1>1, <1>3, <1>4 DEF RestartInv
    <3> QED
      BY <1>2, <1>3, <2>1, <3>1 DEF RestartInv
  <2> QED
    BY <2>1, <2>2, <2>3, <2>4, <2>5, NothingMade DEF GInv
<1>5. CASE second /\ o = "list"
  <2>1. UNCHANGED run /\ pc' = "tar" /\ rc' = rc /\ pc = "list" /\ ground = "own"
    BY <1>1, <1>2, <1>5 DEF OnError, StageInv
  <2>2. TypeOK'
    BY <1>1, <2>1 DEF TypeOK, cache, asked, run, Label
  <2>3. TreeInv' /\ SubInv' /\ FetchedInv' /\ ArchiveIsExact'
    BY <1>1, <1>3, <2>1 DEF TreeInv, SubInv, Made, Proper, FetchedInv, ArchiveIsExact,
                            cache, asked, run, Exact
  <2>4. StageInv' /\ RestartInv' /\ HealInv'
    BY <1>1, <2>1 DEF StageInv, RestartInv, HealInv, run, cache
  <2> QED
    BY <2>2, <2>3, <2>4 DEF GInv
<1>6. CASE second /\ o # "list"
  <2>1. /\ UNCHANGED run /\ rc' = 1
        /\ pc' = IF outer = "no" THEN "idle" ELSE "exit"
    BY <1>6 DEF OnError, End
  <2>2. TypeOK'
    BY <1>1, <2>1 DEF TypeOK, cache, asked, run, Label
  <2>3. FetchedInv' /\ TreeInv' /\ ArchiveIsExact'
    BY <2>1 DEF FetchedInv, TreeInv, Made, ArchiveIsExact
  <2>4. SubInv'
    BY <1>1, <1>3, <2>1 DEF SubInv, Made, cache
  <2>5. StageInv' /\ RestartInv' /\ HealInv'
    BY <1>1, <1>6, <2>1 DEF StageInv, RestartInv, HealInv, run, cache
  <2> QED
    BY <2>2, <2>3, <2>4, <2>5 DEF GInv
<1> QED
  BY <1>4, <1>5, <1>6

(* What a command leaves that does not come to its end.                    *)
LEMMA CutShortCache ==
    ASSUME GInv, CutShort, pc # "idle"
    PROVE  /\ damage' \subseteq {"lock", "broken", "commit"}
           /\ origin' \in BOOLEAN
           /\ have' \subseteq Exists
           /\ index' \in Exists \cup {None}
           /\ disk' \in [File -> Cset \cup {Junk, None}]
           /\ sub' \in Held
           /\ sub' \in Rev \cup {Mixed} => index' # None /\ Sub[index'] # None
<1>1. TypeOK /\ SubInv /\ TreeInv
  BY DEF GInv
<1> USE DEF At
<1>2. ASSUME NEW d \in [File -> Cset \cup {Junk, None}], NEW e \in [File -> Cset \cup {Junk, None}],
             disk' \in Partly(d, e)
      PROVE  disk' \in [File -> Cset \cup {Junk, None}]
  BY <1>2 DEF Partly
<1>3. CASE pc = "remove"
  <2>1. Torn
    BY <1>3 DEF CutShort
  <2>2. Empty \in [File -> Cset \cup {Junk, None}]
    BY DEF Empty
  <2>3. disk' \in [File -> Cset \cup {Junk, None}]
    BY <1>1, <1>2, <2>1, <2>2 DEF Torn, TypeOK
  <2>4. sub' \in Held /\ (sub' \in Rev \cup {Mixed} => sub' = sub /\ index' = index)
    BY <1>1, <2>1, GitAssumption DEF Torn, TypeOK, Held
  <2>5. /\ damage' \subseteq {"lock", "broken", "commit"} /\ origin' \in BOOLEAN
        /\ have' \subseteq Exists /\ index' \in Exists \cup {None}
    BY <1>1, <2>1, GitAssumption DEF Torn, TypeOK
  <2> QED
    BY <1>1, <2>3, <2>4, <2>5 DEF SubInv
<1>4. CASE pc = "checkout"
  <2>1. /\ damage' \in {damage, damage \cup {"lock"}}
        /\ disk' \in Partly(disk, CheckedOut(disk))
        /\ UNCHANGED <<origin, have, index, sub>>
    BY <1>4 DEF CutShort
  <2>2. CheckedOut(disk) \in [File -> Cset \cup {Junk, None}]
    BY <1>1 DEF CheckedOut, TypeOK
  <2>3. disk' \in [File -> Cset \cup {Junk, None}]
    BY <1>1, <1>2, <2>1, <2>2 DEF TypeOK
  <2> QED
    BY <1>1, <2>1, <2>3 DEF TypeOK, SubInv
<1>5. CASE pc \notin {"remove", "checkout"}
  <2>1. /\ damage' \in {damage} \cup {damage \cup {x} : x \in Damage \ {"lock"}}
        /\ disk' \in IF pc = "clean" THEN Partly(disk, Cleaned) ELSE {disk}
        /\ sub' \in CASE pc = "deregister" /\ sub # None -> {sub, None, Rest}
                      [] pc = "submodules" /\ Sub[index] # None -> {sub, Rest} \cup Updated
                      [] OTHER -> {sub}
        /\ UNCHANGED <<origin, have, index>>
    BY <1>5 DEF CutShort
  <2>2. damage' \subseteq {"lock", "broken", "commit"}
    BY <1>1, <2>1, GitAssumption DEF TypeOK
  <2>3. Cleaned \in [File -> Cset \cup {Junk, None}]
    BY <1>1 DEF Cleaned, TypeOK
  <2>4. disk' \in [File -> Cset \cup {Junk, None}]
    BY <1>1, <1>2, <2>1, <2>3 DEF TypeOK
  <2>5. pc = "submodules" => index = cset /\ Sub[index] \in Rev \cup {None} /\ index # None
    BY <1>1, GitAssumption DEF TreeInv, TypeOK
  <2>6. sub' \in Held /\ (sub' \in Rev \cup {Mixed} => index # None /\ Sub[index] # None)
    <3>1. CASE pc = "deregister" /\ sub # None
      BY <1>1, <2>1, <3>1, GitAssumption DEF TypeOK, SubInv, Held
    <3>2. CASE pc = "submodules" /\ Sub[index] # None
      <4>1. sub' \in {sub, Rest, Sub[index], Mixed}
        BY <2>1, <3>2 DEF Updated
      <4> QED
        BY <1>1, <2>5, <3>2, <4>1 DEF TypeOK, Held
    <3>3. CASE sub' = sub
      BY <1>1, <3>3 DEF TypeOK, SubInv
    <3> QED
      BY <2>1, <3>1, <3>2, <3>3
  <2> QED
    BY <1>1, <2>1, <2>2, <2>4, <2>6 DEF TypeOK
<1> QED
  BY <1>3, <1>4, <1>5

LEMMA CutShortKeeps ==
    ASSUME GInv, CutShort, pc # "idle", UNCHANGED <<request, archive, requests, damages>>,
           \/ pc' = "idle" /\ rc' = 1
           \/ pc' = "exit" /\ outer # "no" /\ rc' = 1
           \/ pc' = "init" /\ pc = "remove" /\ rc' = rc,
           faulted' = TRUE, faults' = faults + 1, faults < MaxFaults
    PROVE  GInv'
<1>1. TypeOK /\ StageInv /\ RestartInv
  BY DEF GInv
<1>2. faults' \in 0 .. MaxFaults /\ faults' > 0
  BY <1>1, GitAssumption DEF TypeOK
<1>3. TypeOK'
  BY <1>1, <1>2, CutShortCache DEF TypeOK, request, asked, run, Label
<1>4. FetchedInv' /\ TreeInv' /\ ArchiveIsExact'
  BY DEF FetchedInv, TreeInv, Made, ArchiveIsExact
<1>5. SubInv'
  BY <1>2, CutShortCache DEF SubInv, Made
<1>6. StageInv' /\ RestartInv' /\ HealInv'
  BY <1>1 DEF StageInv, RestartInv, HealInv, request, run
<1> QED
  BY <1>3, <1>4, <1>5, <1>6 DEF GInv

(* A command of the script that goes on: it makes the archive neither true *)
(* nor false, and the run stays the one that it was.                       *)
LEMMA GoingKeeps ==
    ASSUME GInv, Going, pc \notin {"idle", "exit"}, ground = "own" \/ pc' = "tar",
           pc' \in Label \ {"idle", "exit", "remove"},
           second /\ pc # "remove" => damage' \subseteq damage /\ (sub' = Rest => sub = Rest),
           pc = "remove" => damage' = {} /\ sub' # Rest
    PROVE  StageInv' /\ RestartInv' /\ HealInv' /\ ArchiveIsExact'
<1>1. StageInv /\ RestartInv /\ HealInv /\ UNCHANGED run /\ faulted' = faulted /\ pc' # "idle"
  BY DEF GInv, Going, request
<1>2. StageInv' /\ RestartInv'
  BY <1>1 DEF StageInv, RestartInv, run
<1>3. HealInv'
  BY <1>1 DEF HealInv, run
<1>4. ArchiveIsExact'
  BY <1>1 DEF ArchiveIsExact
<1> QED
  BY <1>2, <1>3, <1>4

(* The commands before the changeset is known leave the working tree.      *)
LEMMA FirstStepsKeep ==
    ASSUME GInv, Remove \/ GitInit \/ RemoteOrigin \/ Fetch
    PROVE  GInv'
<1> USE DEF At, Goto
<1>1. TypeOK /\ SubInv /\ StageInv /\ Going
  BY DEF GInv, Remove, GitInit, RemoteOrigin, Fetch
<1>2. /\ pc \in {"remove", "init", "origin", "fetch"} /\ pc' \in {"init", "origin", "fetch", "verify"}
      /\ pc' = "verify" => Exists \subseteq have'
      /\ damage' \subseteq damage /\ origin' \in BOOLEAN /\ have' \subseteq Exists
      /\ (UNCHANGED <<index, disk, sub>> /\ pc # "remove") \/ RmCache
  BY <1>1 DEF Remove, GitInit, RemoteOrigin, Fetch, RmCache, TypeOK
<1>3. /\ index' \in Exists \cup {None} /\ disk' \in [File -> Cset \cup {Junk, None}] /\ sub' \in Held
      /\ sub' \in {sub, None} /\ (sub' # None => index' = index)
  BY <1>1, <1>2 DEF RmCache, Empty, TypeOK, Held
<1>4. ground = "own"
  BY <1>1, <1>2 DEF StageInv
<1>5. pc = "remove" => damage' = {} /\ sub' # Rest
  BY <1>2, GitAssumption DEF RmCache
<1>6. StageInv' /\ RestartInv' /\ HealInv' /\ ArchiveIsExact'
  BY <1>1, <1>2, <1>3, <1>4, <1>5, GoingKeeps, GitAssumption DEF Label
<1>7. TypeOK'
  BY <1>1, <1>2, <1>3 DEF TypeOK, Going, request, asked, run, ends, Label
<1>8. FetchedInv' /\ TreeInv'
  BY <1>2 DEF FetchedInv, TreeInv, Made
<1>9. SubInv'
  BY <1>1, <1>2, <1>3, GitAssumption DEF SubInv, Made, Going, Held
<1> QED
  BY <1>6, <1>7, <1>8, <1>9 DEF GInv

(* The working copy of a submodule goes; only files that no index names,   *)
(* or without a repository, can stay.                                      *)
LEMMA DeregisterKeeps ==
    ASSUME GInv, Deregister
    PROVE  GInv'
<1> USE DEF At, Goto
<1>1. /\ TypeOK /\ SubInv /\ StageInv /\ FetchedInv /\ Going
      /\ pc = "deregister" /\ pc' = "checkout" /\ UNCHANGED <<damage, origin, have, index, disk>>
  BY DEF GInv, Deregister
<1>2. sub' \in {None, Rest} /\ sub' \in {None, sub}
  BY <1>1 DEF Deregister, SubInv, TypeOK, Held
<1>3. StageInv' /\ RestartInv' /\ HealInv' /\ ArchiveIsExact'
  BY <1>1, <1>2, GoingKeeps, GitAssumption DEF StageInv, Label
<1>4. TypeOK'
  BY <1>1, <1>2 DEF TypeOK, Going, request, asked, run, ends, Label, Held
<1>5. FetchedInv' /\ TreeInv'
  BY <1>1 DEF FetchedInv, TreeInv, Made, Going, request, asked
<1>6. SubInv'
  BY <1>1, <1>2, GitAssumption DEF SubInv, Made, Going
<1> QED
  BY <1>3, <1>4, <1>5, <1>6 DEF GInv

LEMMA CheckoutKeeps ==
    ASSUME GInv, Checkout
    PROVE  GInv'
<1> USE DEF At, Goto
<1>1. /\ TypeOK /\ SubInv /\ StageInv /\ FetchedInv /\ Going
      /\ pc = "checkout" /\ pc' = "clean" /\ UNCHANGED <<damage, origin, have, sub>>
      /\ index' = cset /\ disk' = CheckedOut(disk)
  BY DEF GInv, Checkout
<1>2. cset \in Exists /\ sub \in {None, Rest}
  BY <1>1 DEF FetchedInv, TypeOK, SubInv
<1>3. disk' \in [File -> Cset \cup {Junk, None}] /\ \A f \in Files[cset] : disk'[f] = cset
  BY <1>1, GitAssumption DEF CheckedOut, TypeOK
<1>4. StageInv' /\ RestartInv' /\ HealInv' /\ ArchiveIsExact'
  BY <1>1, GoingKeeps DEF StageInv, Label
<1>5. TypeOK'
  BY <1>1, <1>2, <1>3 DEF TypeOK, Going, request, asked, run, ends, Label
<1>6. FetchedInv' /\ TreeInv'
  BY <1>1, <1>3 DEF FetchedInv, TreeInv, Made, Going, request, asked
<1>7. SubInv'
  BY <1>1, <1>2, GitAssumption DEF SubInv, Made, Going
<1> QED
  BY <1>4, <1>5, <1>6, <1>7 DEF GInv

LEMMA CleanKeeps ==
    ASSUME GInv, Clean
    PROVE  GInv'
<1> USE DEF At, Goto
<1>1. /\ TypeOK /\ SubInv /\ StageInv /\ TreeInv /\ Going
      /\ pc = "clean" /\ pc' = "log" /\ UNCHANGED <<damage, origin, have, index>>
      /\ disk' = Cleaned /\ sub' = IF Sub[index] = None THEN None ELSE sub
      /\ cset' = cset
  BY DEF GInv, Clean, Going, request, asked
<1>2. index = cset /\ sub \in {None, Rest}
  BY <1>1 DEF TreeInv, SubInv
<1>3. disk' = Exact(cset)
  BY <1>1, <1>2, GitAssumption DEF TreeInv, Cleaned, Exact, TypeOK
<1>4. sub' = None \/ (sub' = Rest /\ sub = Rest /\ Sub[cset] # None)
  BY <1>1, <1>2
<1>5. StageInv' /\ RestartInv' /\ HealInv' /\ ArchiveIsExact'
  BY <1>1, <1>4, GoingKeeps, GitAssumption DEF StageInv, Label
<1>6. TypeOK'
  <2>1. disk' \in [File -> Cset \cup {Junk, None}]
    BY <1>1, <1>3 DEF Exact, TypeOK
  <2> QED
    BY <1>1, <1>4, <2>1 DEF TypeOK, Going, request, asked, run, ends, Label, Held
<1>7. FetchedInv' /\ TreeInv'
  BY <1>1, <1>2, <1>3 DEF FetchedInv, TreeInv, Made, Exact
<1>8. SubInv'
  BY <1>1, <1>4, GitAssumption DEF SubInv, Made, Going
<1> QED
  BY <1>5, <1>6, <1>7, <1>8 DEF GInv

(* From the log on, the working tree is that of the changeset.             *)
LEMMA LastStepsKeep ==
    ASSUME GInv, Log \/ ListSubmodules
    PROVE  GInv'
<1> USE DEF At, Goto
<1>1. /\ TypeOK /\ SubInv /\ StageInv /\ TreeInv /\ Going
      /\ \/ pc = "log" /\ pc' = IF recurse THEN "submodules" ELSE "tar"
         \/ pc = "list" /\ pc' = "tar"
      /\ UNCHANGED cache
      /\ cset' = cset /\ recurse' = recurse /\ ground' = ground
  BY DEF GInv, Log, ListSubmodules, Going, request, asked, run
<1>2. ground = "own" /\ index = cset /\ disk = Exact(cset)
  BY <1>1 DEF StageInv, TreeInv, Made
<1>3. StageInv' /\ RestartInv' /\ HealInv' /\ ArchiveIsExact'
  BY <1>1, <1>2, GoingKeeps DEF Label, cache
<1>4. TypeOK'
  BY <1>1 DEF TypeOK, Going, request, asked, run, ends, Label, cache
<1>5. FetchedInv' /\ TreeInv'
  BY <1>1, <1>2 DEF FetchedInv, TreeInv, Made, Exact, cache
<1>6. SubInv'
  <2>1. pc' = "tar" => Proper'
    BY <1>1, <1>2 DEF SubInv, Made, Proper, cache
  <2> QED
    BY <1>1, <1>2, <2>1 DEF SubInv, Made, Going, cache
<1> QED
  BY <1>3, <1>4, <1>5, <1>6 DEF GInv

LEMMA SubmodulesKeeps ==
    ASSUME GInv, Submodules
    PROVE  GInv'
<1> USE DEF At, Goto
<1>1. /\ TypeOK /\ SubInv /\ StageInv /\ TreeInv /\ Going
      /\ pc = "submodules" /\ pc' = "list" /\ ground = "own" /\ sub' \in Updated
      /\ UNCHANGED <<damage, origin, have, index, disk>>
      /\ cset' = cset /\ recurse' = recurse /\ recurse
  BY DEF GInv, Submodules, Going, request, asked, SubInv
<1>2. index = cset /\ disk = Exact(cset) /\ index # None /\ Sub[index] \in Rev \cup {None}
  BY <1>1, GitAssumption DEF TreeInv, TypeOK
<1>3. /\ sub' = Sub[cset] \/ (Sub[cset] # None /\ sub' = Mixed)
      /\ sub' = Mixed => sub = Rest
  BY <1>1, <1>2, GitAssumption DEF Updated, SubInv
<1>4. sub' \in Held /\ sub' # Rest
  BY <1>2, <1>3, GitAssumption DEF Held
<1>5. StageInv' /\ RestartInv' /\ HealInv' /\ ArchiveIsExact'
  BY <1>1, <1>4, GoingKeeps DEF Label
<1>6. TypeOK'
  BY <1>1, <1>4 DEF TypeOK, Going, request, asked, run, ends, Label
<1>7. FetchedInv' /\ TreeInv'
  BY <1>1, <1>2 DEF FetchedInv, TreeInv, Made, Exact
<1>8. Proper'
  BY <1>1, <1>3 DEF Proper
<1>9. SubInv'
  <2>1. sub' \in Rev \cup {Mixed} => index' # None /\ Sub[index'] # None
    BY <1>1, <1>2, <1>3, GitAssumption
  <2>2. sub' \in {Rest, Mixed} => faults' > 0 \/ damages' > 0
    BY <1>1, <1>3, <1>4 DEF SubInv, Going
  <2> QED
    BY <1>1, <1>8, <2>1, <2>2 DEF SubInv
<1> QED
  BY <1>5, <1>6, <1>7, <1>9 DEF GInv

LEMMA MkTarGzKeeps ==
    ASSUME GInv, MkTarGz
    PROVE  GInv'
<1> USE DEF At
<1>1. /\ TypeOK /\ SubInv /\ StageInv /\ TreeInv /\ RestartInv /\ HealInv
      /\ pc = "tar" /\ archive' = Content(disk, sub) /\ rc' = 0
      /\ pc' = IF outer = "no" THEN "idle" ELSE "exit"
      /\ UNCHANGED <<cache, request, faulted, requests, damages, faults>>
  BY DEF GInv, MkTarGz, End
<1>2. ground # "half" => index = cset /\ disk = Exact(cset) /\ Proper
  BY <1>1 DEF TreeInv, SubInv, Made
<1>3. TypeOK'
  <2>1. archive' \in Archive
    BY <1>1, ArchiveType DEF TypeOK
  <2> QED
    BY <1>1, <2>1 DEF TypeOK, request, asked, run, Label, cache
<1>4. FetchedInv' /\ TreeInv'
  BY <1>1, <1>2 DEF FetchedInv, TreeInv, StageInv, Made, Exact, cache, request, asked, run
<1>5. StageInv' /\ RestartInv' /\ HealInv'
  BY <1>1 DEF StageInv, RestartInv, HealInv, cache, request, run
<1>6. SubInv'
  <2>1. Made' => Proper'
    BY <1>1, <1>2 DEF StageInv, Made, Proper, cache, request, asked, run
  <2> QED
    BY <1>1, <2>1 DEF SubInv, cache
<1>7. ArchiveIsExact'
  <2> SUFFICES ASSUME ground # "half"
               PROVE  /\ archive'.files = Exact(cset)
                      /\ archive'.sub = Wanted(cset, recurse).sub \/ StrayFiles'
    BY <1>1 DEF ArchiveIsExact, Exact, Wanted, Content, request, asked, run
  <2>1. archive'.files = Exact(cset) /\ archive'.sub = sub
    BY <1>1, <1>2 DEF Content
  <2>2. CASE sub = IF recurse THEN Sub[cset] ELSE None
    BY <2>1, <2>2 DEF Wanted, Content
  <2>3. CASE Sub[cset] # None /\ sub = IF recurse THEN Mixed ELSE Rest
    BY <1>1, <2>1, <2>3 DEF SubInv, StrayFiles, request, asked
  <2> QED
    BY <1>2, <2>1, <2>2, <2>3 DEF Proper
<1> QED
  BY <1>3, <1>4, <1>5, <1>6, <1>7 DEF GInv

(* The first run goes on beside the cache that the nested one has made; it *)
(* knows whether that one came to its end.                                 *)
LEMMA GoesOnKeeps ==
    ASSUME GInv, GoesOn
    PROVE  GInv'
<1> USE DEF At, Goto
<1>1. /\ TypeOK /\ SubInv /\ StageInv /\ TreeInv /\ RestartInv
      /\ pc = "exit" /\ second' = FALSE /\ outer' = "no"
      /\ outer = "list" \/ (outer = "log" /\ rc = 0)
      /\ pc' = IF outer = "log" /\ recurse THEN "submodules" ELSE "tar"
      /\ ground' = IF rc = 0 THEN "new" ELSE "half"
      /\ UNCHANGED <<cache, asked, restarts, ends, faulted, requests, damages, faults>>
  BY DEF GInv, GoesOn
<1>2. rc = 0 => index = cset /\ disk = Exact(cset) /\ Proper
  BY <1>1 DEF TreeInv, SubInv, Made
<1>3. TypeOK'
  BY <1>1 DEF TypeOK, asked, ends, Label, Where, cache
<1>4. FetchedInv' /\ TreeInv' /\ ArchiveIsExact'
  BY <1>1, <1>2 DEF FetchedInv, TreeInv, ArchiveIsExact, Made, Exact, cache, asked
<1>5. StageInv' /\ HealInv'
  BY <1>1 DEF StageInv, HealInv
<1>6. RestartInv'
  BY <1>1 DEF RestartInv, StageInv, TypeOK
<1>7. SubInv'
  <2>1. Made' => Proper'
    BY <1>1, <1>2 DEF Made, Proper, cache, asked
  <2> QED
    BY <1>1, <2>1 DEF SubInv, cache, asked
<1> QED
  BY <1>3, <1>4, <1>5, <1>6, <1>7 DEF GInv

LEMMA TarGoesOnKeeps ==
    ASSUME GInv, TarGoesOn
    PROVE  GInv'
<1> USE DEF At, Goto
<1>1. /\ TypeOK /\ SubInv /\ StageInv /\ TreeInv /\ RestartInv
      /\ pc = "exit" /\ second' = FALSE /\ outer' = "no" /\ outer = "tar" /\ rc = 0
      /\ pc' = "idle" /\ ground' = "new" /\ archive' = Content(disk, sub)
      /\ UNCHANGED <<cache, asked, restarts, rc, faulted, requests, damages, faults>>
  BY DEF GInv, TarGoesOn
<1>2. index = cset /\ disk = Exact(cset) /\ Proper
  BY <1>1 DEF TreeInv, SubInv, Made
<1>3. TypeOK'
  <2>1. archive' \in Archive
    BY <1>1, ArchiveType DEF TypeOK
  <2> QED
    BY <1>1, <2>1 DEF TypeOK, asked, Label, Where, cache
<1>4. FetchedInv' /\ TreeInv' /\ StageInv' /\ HealInv'
  BY <1>1 DEF FetchedInv, TreeInv, Made, StageInv, HealInv
<1>5. RestartInv'
  BY <1>1 DEF RestartInv, StageInv, TypeOK
<1>6. SubInv'
  BY <1>1 DEF SubInv, Made, cache
<1>7. ArchiveIsExact'
  <2>1. archive'.files = Exact(cset) /\ archive'.sub = sub
    BY <1>1, <1>2 DEF Content
  <2>2. archive'.sub = Wanted(cset, recurse).sub \/ StrayFiles'
    <3>1. CASE sub = IF recurse THEN Sub[cset] ELSE None
      BY <2>1, <3>1 DEF Wanted, Content
    <3>2. CASE Sub[cset] # None /\ sub = IF recurse THEN Mixed ELSE Rest
      BY <1>1, <2>1, <3>2 DEF SubInv, StrayFiles, asked
    <3> QED
      BY <1>2, <3>1, <3>2 DEF Proper
  <2> QED
    BY <1>1, <2>1, <2>2 DEF ArchiveIsExact, Exact, Wanted, Content, asked
<1> QED
  BY <1>3, <1>4, <1>5, <1>6, <1>7 DEF GInv

LEMMA FailsAfterKeeps ==
    ASSUME GInv, FailsAfter
    PROVE  GInv'
<1> USE DEF At, Goto
<1>1. /\ TypeOK /\ SubInv /\ StageInv /\ RestartInv
      /\ pc = "exit" /\ outer \in {"sed", "tar", "log"} /\ outer' = "no" /\ ground' = "own"
      /\ restarts' = restarts + 1 /\ pc' = "remove" /\ second' = second /\ second
      /\ UNCHANGED <<cache, asked, ends, faulted, requests, damages, faults>>
  BY DEF GInv, FailsAfter, StageInv
<1>2. TypeOK'
  BY <1>1 DEF TypeOK, asked, ends, Label, Where, cache
<1>3. FetchedInv' /\ TreeInv' /\ StageInv' /\ HealInv' /\ ArchiveIsExact'
  BY <1>1 DEF FetchedInv, TreeInv, Made, StageInv, HealInv, ArchiveIsExact
<1>4. RestartInv'
  BY <1>1 DEF RestartInv, TypeOK
<1>5. SubInv'
  BY <1>1 DEF SubInv, Made, cache
<1> QED
  BY <1>2, <1>3, <1>4, <1>5 DEF GInv

LEMMA VerifyKeeps ==
    ASSUME GInv, Verify
    PROVE  GInv'
<1> USE DEF At, Goto
<1>1. /\ TypeOK /\ SubInv /\ StageInv /\ RestartInv /\ HealInv /\ pc = "verify"
      /\ UNCHANGED <<cache, request, archive, faulted, requests, damages, faults>>
  BY DEF GInv, Verify
<1>2. \/ pc' = "deregister" /\ rc' = rc /\ cset \in have
      \/ pc' = (IF outer = "no" THEN "idle" ELSE "exit") /\ rc' = 1
  BY DEF Verify, End
<1>3. TypeOK'
  BY <1>1, <1>2 DEF TypeOK, request, asked, run, Label, cache
<1>4. FetchedInv' /\ TreeInv' /\ ArchiveIsExact'
  BY <1>1, <1>2 DEF FetchedInv, TreeInv, Made, ArchiveIsExact, cache, request, asked
<1>5. StageInv' /\ RestartInv' /\ HealInv'
  BY <1>1, <1>2 DEF StageInv, RestartInv, HealInv, cache, request, run
<1>6. SubInv'
  BY <1>1, <1>2 DEF SubInv, Made, cache
<1> QED
  BY <1>3, <1>4, <1>5, <1>6 DEF GInv

LEMMA RequestKeeps ==
    ASSUME GInv, NEW c \in Cset, NEW r \in BOOLEAN, Request(c, r)
    PROVE  GInv'
<1>1. /\ TypeOK /\ SubInv /\ pc = "idle" /\ pc' = "init" /\ cset' = c /\ recurse' = r
      /\ second' = FALSE /\ outer' = "no" /\ ground' = "own" /\ restarts' = 0
      /\ archive' = NoArchive /\ faulted' = FALSE
      /\ UNCHANGED <<cache, rc, damages, faults>>
  BY DEF GInv, Request
<1>2. TypeOK'
  <2>1. requests' \in 0 .. MaxRequests /\ restarts' \in Nat
    BY <1>1, GitAssumption DEF Request, TypeOK
  <2> QED
    BY <1>1, <2>1, NoArchiveType DEF TypeOK, Label, Where, cache
<1>3. FetchedInv' /\ TreeInv' /\ StageInv' /\ RestartInv' /\ HealInv' /\ ArchiveIsExact'
  BY <1>1 DEF FetchedInv, TreeInv, Made, StageInv, RestartInv, HealInv, ArchiveIsExact
<1>4. SubInv'
  BY <1>1 DEF SubInv, Made, cache
<1> QED
  BY <1>2, <1>3, <1>4 DEF GInv

LEMMA MeddleKeeps ==
    ASSUME GInv, Meddle
    PROVE  GInv'
<1>1. /\ TypeOK /\ SubInv /\ StageInv /\ RestartInv /\ ArchiveIsExact /\ pc = "idle"
      /\ damages' = damages + 1 /\ damages < MaxDamages
      /\ UNCHANGED <<origin, have, index, pc, request, ends, faulted, requests, faults>>
  BY DEF GInv, Meddle
<1>2. damages' \in 0 .. MaxDamages /\ damages' > 0
  BY <1>1, GitAssumption DEF TypeOK
<1>3. damage' \subseteq {"lock", "broken", "commit"} /\ disk' \in [File -> Cset \cup {Junk, None}]
  BY <1>1, GitAssumption DEF Meddle, TypeOK
<1>4. sub' \in Held /\ (sub' \in Rev \cup {Mixed} => index # None /\ Sub[index] # None)
  BY <1>1, GitAssumption DEF Meddle, TypeOK, SubInv, Held
<1>5. TypeOK'
  BY <1>1, <1>2, <1>3, <1>4 DEF TypeOK, request, asked, run, ends
<1>6. FetchedInv' /\ TreeInv' /\ StageInv' /\ RestartInv' /\ HealInv'
  BY <1>1 DEF FetchedInv, TreeInv, Made, StageInv, RestartInv, HealInv, request, run
<1>7. SubInv'
  BY <1>1, <1>2, <1>4 DEF SubInv, Made
<1>8. ArchiveIsExact'
  BY <1>1, <1>2 DEF ArchiveIsExact, StrayFiles, Exact, Wanted, Content, request, asked, run, ends
<1> QED
  BY <1>5, <1>6, <1>7, <1>8 DEF GInv

LEMMA CacheFailsKeeps ==
    ASSUME GInv, CacheFails \/ Astray
    PROVE  GInv'
<1>1. TypeOK /\ StageInv /\ UNCHANGED <<faulted, requests, damages, faults>>
  BY DEF GInv, CacheFails, Astray
<1>2. faulted' \in BOOLEAN /\ faults' \in 0 .. MaxFaults /\ faults' >= faults
  BY <1>1, GitAssumption DEF TypeOK
<1>3. CASE CacheFails
  <2>1. pc \notin {"idle", "exit", "remove", "verify"} /\ \E o \in Traps : OnError(o)
    BY <1>3 DEF CacheFails
  <2> QED
    BY <1>1, <1>2, <2>1, OnErrorKeeps
<1>4. CASE Astray
  <2>1. pc \in {"submodules", "tar"} /\ \E o \in Traps : OnError(o)
    BY <1>4 DEF Astray, At, Traps
  <2> QED
    BY <1>1, <1>2, <2>1, OnErrorKeeps
<1> QED
  BY <1>3, <1>4

LEMMA FaultKeeps ==
    ASSUME GInv, Fault \/ Kill
    PROVE  GInv'
<1> USE DEF At, Goto
<1>1. /\ TypeOK /\ StageInv /\ RestartInv /\ SubInv /\ HealInv /\ pc # "idle"
      /\ faults < MaxFaults /\ faults' = faults + 1 /\ faulted' = TRUE
      /\ UNCHANGED <<requests, damages>>
  BY DEF GInv, Fault, Kill
<1>2. faults' \in 0 .. MaxFaults /\ faults' >= faults /\ faults' > 0
  BY <1>1, GitAssumption DEF TypeOK
<1>3. CASE Kill
  BY <1>1, <1>3, CutShortKeeps DEF Kill
<1>4. CASE Fault /\ pc = "verify"
  <2>1. /\ UNCHANGED <<cache, request, archive>> /\ rc' = 1
        /\ pc' = IF outer = "no" THEN "idle" ELSE "exit"
    BY <1>4 DEF Fault, End
  <2>2. TypeOK'
    BY <1>1, <1>2, <2>1 DEF TypeOK, request, asked, run, Label, cache
  <2>3. FetchedInv' /\ TreeInv' /\ ArchiveIsExact'
    BY <2>1 DEF FetchedInv, TreeInv, Made, ArchiveIsExact
  <2>4. StageInv' /\ RestartInv' /\ HealInv'
    BY <1>1, <1>4, <2>1 DEF StageInv, RestartInv, HealInv, request, run
  <2>5. SubInv'
    BY <1>1, <1>2, <2>1 DEF SubInv, Made, cache
  <2> QED
    BY <2>2, <2>3, <2>4, <2>5 DEF GInv
<1>5. CASE Fault /\ pc = "remove"
  <2>1. CutShort /\ pc' = "init" /\ UNCHANGED <<request, archive>> /\ rc' = rc
    BY <1>5 DEF Fault, CutShort, ends
  <2> QED
    BY <1>1, <1>5, <2>1, CutShortKeeps
<1>6. CASE Fault /\ pc \notin {"verify", "remove"}
  <2>1. \/ \E o \in Traps : OnError(o)
        \/ second /\ CutShort /\ End(1) /\ UNCHANGED <<request, archive>>
    BY <1>6 DEF Fault
  <2>2. CASE \E o \in Traps : OnError(o)
    <3>1. pc \notin {"idle", "exit", "remove", "verify"}
      BY <1>6 DEF Fault
    <3> QED
      BY <1>1, <1>2, <2>2, <3>1, OnErrorKeeps
  <2>3. CASE second /\ CutShort /\ End(1) /\ UNCHANGED <<request, archive>>
    BY <1>1, <2>3, CutShortKeeps DEF End
  <2> QED
    BY <2>1, <2>2, <2>3
<1> QED
  BY <1>3, <1>4, <1>5, <1>6

LEMMA StepGInv ==
    ASSUME GInv, Next
    PROVE  GInv'
BY FirstStepsKeep, VerifyKeeps, DeregisterKeeps, CheckoutKeeps, CleanKeeps, LastStepsKeep,
   SubmodulesKeeps, MkTarGzKeeps, GoesOnKeeps, TarGoesOnKeeps, FailsAfterKeeps, RequestKeeps,
   MeddleKeeps, CacheFailsKeeps, FaultKeeps DEF Next, Script

LEMMA Invariance == Spec => []GInv
<1>1. GInv /\ [Next]_vars => GInv'
  <2>1. ASSUME GInv, UNCHANGED vars
        PROVE  GInv'
    <3>1. TypeOK' /\ FetchedInv' /\ TreeInv'
      BY <2>1 DEF vars, cache, request, asked, run, ends, GInv, TypeOK, FetchedInv, TreeInv,
                  Made, Exact
    <3>2. SubInv' /\ StageInv' /\ RestartInv' /\ HealInv'
      BY <2>1 DEF vars, cache, request, asked, run, ends, GInv, SubInv, Made, Proper,
                  StageInv, RestartInv, HealInv
    <3>3. ArchiveIsExact'
      BY <2>1 DEF vars, request, asked, run, ends, GInv, ArchiveIsExact, StrayFiles, Wanted,
                  Exact, Content
    <3> QED
      BY <3>1, <3>2, <3>3 DEF GInv
  <2> QED
    BY <2>1, StepGInv
<1> QED
  BY InitGInv, <1>1, PTL DEF Spec

(* The git backend keeps its types: in particular what is checked out has  *)
(* been fetched (support/download/git:150-184).                            *)
THEOREM GitTyping == Spec => []TypeOK
<1>1. GInv => TypeOK
  BY DEF GInv
<1> QED
  BY <1>1, Invariance, PTL

(* The archive of a changeset holds its files and no others, and of its    *)
(* submodule what was asked for, whatever earlier requests, kills and      *)
(* users have left in the cache, but for files in the directory of a       *)
(* submodule that is not found and for a nested run that failed at the     *)
(* list of the submodules (support/download/git:145-231).                  *)
THEOREM ArchivesAreExact == Spec => []ArchiveIsExact
<1>1. GInv => ArchiveIsExact
  BY DEF GInv
<1> QED
  BY <1>1, Invariance, PTL

(* The trap starts the script anew three times at most: once in a command  *)
(* substitution, once when what comes after that one fails, and once when  *)
(* the date of the archive does (support/download/git:35-51, 190, 203,     *)
(* helpers:48).                                                            *)
THEOREM TriesAreFew == Spec => []FewRestarts
<1>1. GInv => FewRestarts
  BY DEF GInv, RestartInv, FewRestarts
<1> QED
  BY <1>1, Invariance, PTL

-----------------------------------------------------------------------------
(* The cache goes away only for a reason (support/download/git:145-152).   *)

(* Only the removal of the cache forgets what has been fetched.            *)
LEMMA OnlyTheTrapRemoves ==
    ASSUME Next, have # {}, have' = {}
    PROVE  pc = "remove"
<1> USE DEF Going, cache, At
<1>1. CASE CacheFails \/ Astray
  BY <1>1 DEF CacheFails, Astray, OnError
<1>2. CASE Fault \/ Kill
  BY <1>2 DEF Fault, Kill, CutShort, OnError
<1>3. CASE Fetch
  BY <1>3 DEF Fetch
<1>4. CASE Meddle \/ \E c \in Cset, r \in BOOLEAN : Request(c, r)
  BY <1>4 DEF Meddle, Request
<1>5. CASE Remove \/ GitInit \/ RemoteOrigin \/ Verify \/ Deregister \/ Checkout
  BY <1>5 DEF Remove, GitInit, RemoteOrigin, Verify, Deregister, Checkout
<1>6. CASE Clean \/ Log \/ Submodules \/ ListSubmodules \/ MkTarGz
  BY <1>6 DEF Clean, Log, Submodules, ListSubmodules, MkTarGz
<1>7. CASE GoesOn \/ TarGoesOn \/ FailsAfter
  BY <1>7 DEF GoesOn, TarGoesOn, FailsAfter
<1> QED
  BY <1>1, <1>2, <1>3, <1>4, <1>5, <1>6, <1>7 DEF Next, Script

(* The trap is reached with damage, with files in the way of a submodule,  *)
(* with a fault, or after it has been reached before.                      *)
LEMMA TheTrapHasAReason ==
    ASSUME GInv, Next, pc # "remove", pc' = "remove"
    PROVE  damage # {} \/ sub = Rest \/ faulted' \/ restarts > 0
<1> USE DEF At, Goto
<1>0. RestartInv /\ StageInv
  BY DEF GInv
<1>1. CASE CacheFails
  BY <1>1 DEF CacheFails
<1>2. CASE Fault \/ Kill
  BY <1>2 DEF Fault, Kill
<1>3. CASE Astray \/ FailsAfter
  BY <1>0, <1>3 DEF Astray, FailsAfter, RestartInv, StageInv
<1>4. CASE Meddle \/ \E c \in Cset, r \in BOOLEAN : Request(c, r)
  BY <1>4 DEF Meddle, Request
<1>5. CASE Remove \/ GitInit \/ RemoteOrigin \/ Fetch \/ Verify \/ Deregister \/ Checkout
  BY <1>5 DEF Remove, GitInit, RemoteOrigin, Fetch, Verify, Deregister, Checkout, End
<1>6. CASE Clean \/ Log \/ Submodules \/ ListSubmodules \/ MkTarGz
  BY <1>6 DEF Clean, Log, Submodules, ListSubmodules, MkTarGz, End
<1>7. CASE GoesOn \/ TarGoesOn
  BY <1>7 DEF GoesOn, TarGoesOn
<1> QED
  BY <1>1, <1>2, <1>3, <1>4, <1>5, <1>6, <1>7 DEF Next, Script

(* A cache that is whole is not lost to a request for a changeset that     *)
(* does not exist.                                                         *)
THEOREM CacheStays == Spec => CacheIsKept
<1> DEFINE Kept == /\ have # {} /\ have' = {} => pc = "remove"
                   /\ pc # "remove" /\ pc' = "remove" =>
                         damage # {} \/ sub = Rest \/ faulted' \/ restarts > 0
<1>1. GInv /\ [Next]_vars => [Kept]_vars
  BY OnlyTheTrapRemoves, TheTrapHasAReason
<1> QED
  BY <1>1, Invariance, PTL DEF Spec, CacheIsKept

-----------------------------------------------------------------------------
(* Healing: a request fails only for a reason outside the cache, or when   *)
(* its commit cannot be read.                                              *)

(* The trap ends a request on a second try alone, when nothing is left     *)
(* that could make a command fail but what is outside.                     *)
LEMMA OnErrorHeals ==
    ASSUME NEW o, OnError(o), ~second
    PROVE  pc' = "remove"
BY DEF OnError

LEMMA StepSelfHeals ==
    ASSUME GInv, SelfHeals, Next
    PROVE  SelfHeals'
<1> USE DEF SelfHeals, At, Goto, Going
<1>0. /\ pc = "verify" => Exists \subseteq have
      /\ second /\ pc \notin {"idle", "remove"} => faulted \/ (damage = {} /\ sub # Rest)
      /\ ground # "own" => ~second
      /\ requests \in Nat
  BY GitAssumption DEF GInv, TypeOK, HealInv, FetchedInv, StageInv
<1>1. CASE \E c \in Cset, r \in BOOLEAN : Request(c, r)
  BY <1>1 DEF Request
<1>2. CASE Meddle
  BY <1>2 DEF Meddle, request, asked, ends
<1>3. CASE Remove \/ GitInit \/ RemoteOrigin \/ Fetch \/ Deregister \/ Checkout
  BY <1>3 DEF Remove, GitInit, RemoteOrigin, Fetch, Deregister, Checkout
<1>4. CASE Clean \/ Log \/ Submodules \/ ListSubmodules \/ MkTarGz
  BY <1>4 DEF Clean, Log, Submodules, ListSubmodules, MkTarGz, End
<1>5. CASE GoesOn \/ TarGoesOn \/ FailsAfter
  BY <1>5 DEF GoesOn, TarGoesOn, FailsAfter
<1>6. CASE Verify
  <2>1. CASE cset \in have /\ "commit" \notin damage
    BY <1>6, <2>1 DEF Verify
  <2>2. CASE cset \notin have \/ "commit" \in damage
    <3>1. cset \notin Exists \/ "commit" \in damage
      BY <1>0, <1>6, <2>2 DEF Verify
    <3>2. cset' = cset /\ damage' = damage
      BY <1>6 DEF Verify, request, asked, cache
    <3> QED
      BY <3>1, <3>2
  <2> QED
    BY <2>1, <2>2
<1>7. CASE CacheFails
  <2>1. faulted' = faulted
    BY <1>7 DEF CacheFails
  <2>2. CASE ~second
    BY <1>7, <2>2, OnErrorHeals DEF CacheFails
  <2>3. CASE second
    <3>1. faulted
      BY <1>0, <1>7, <2>3 DEF CacheFails
    <3> QED
      BY <2>1, <3>1
  <2> QED
    BY <2>2, <2>3
<1>8. CASE Astray
  BY <1>0, <1>8, OnErrorHeals DEF Astray
<1>9. CASE Fault \/ Kill
  <2>1. faulted'
    BY <1>9 DEF Fault, Kill
  <2> QED
    BY <2>1
<1> QED
  BY <1>1, <1>2, <1>3, <1>4, <1>5, <1>6, <1>7, <1>8, <1>9 DEF Next, Script

(* A request for a changeset that the remote has fails only when something *)
(* outside the cache does or its commit cannot be read: any other damage   *)
(* costs more tries (support/download/git:35-51, 145-152).                 *)
THEOREM CacheHeals == Spec => []SelfHeals
<1>1. Init => SelfHeals
  BY DEF Init, SelfHeals
<1>2. GInv /\ SelfHeals /\ [Next]_vars => SelfHeals'
  <2>1. ASSUME GInv, SelfHeals, UNCHANGED vars
        PROVE  SelfHeals'
    BY <2>1 DEF SelfHeals, vars, cache, request, asked, ends
  <2> QED
    BY <2>1, StepSelfHeals
<1> QED
  BY <1>1, <1>2, Invariance, PTL DEF Spec

-----------------------------------------------------------------------------
(* Every request ends.  Left counts the commands of the run that goes on,  *)
(* and 14 for every stage that may come after: the run that the trap has   *)
(* started, the one that a substitution is part of, and so on.  Every step *)
(* of the script lowers it.                                                *)

Distance == [l \in Label |->
    CASE l = "idle" -> 0 [] l = "exit" -> 1 [] l = "tar" -> 2 [] l = "list" -> 3
      [] l = "submodules" -> 4 [] l = "log" -> 5 [] l = "clean" -> 6 [] l = "checkout" -> 7
      [] l = "deregister" -> 8 [] l = "verify" -> 9 [] l = "fetch" -> 10 [] l = "origin" -> 11
      [] l = "init" -> 12 [] l = "remove" -> 13]

Stage ==
    IF outer \in {"sed", "tar"} THEN 1
    ELSE IF outer \in {"log", "list"} THEN 3
    ELSE IF second THEN 0
    ELSE IF ground # "own" THEN 2
    ELSE 4

Left == IF pc = "idle" THEN 0 ELSE Distance[pc] + 14 * Stage

(* The script goes on until it ends: what WF_vars(Script) says of a script *)
(* that is never stuck.                                                    *)
Scheduled == []<>(pc = "idle") \/ []<><<Script>>_vars

LEMMA Distances ==
    /\ Distance["idle"] = 0
    /\ Distance["exit"] = 1
    /\ Distance["tar"] = 2
    /\ Distance["list"] = 3
    /\ Distance["submodules"] = 4
    /\ Distance["log"] = 5
    /\ Distance["clean"] = 6
    /\ Distance["checkout"] = 7
    /\ Distance["deregister"] = 8
    /\ Distance["verify"] = 9
    /\ Distance["fetch"] = 10
    /\ Distance["origin"] = 11
    /\ Distance["init"] = 12
    /\ Distance["remove"] = 13
<1>1. Distance["idle"] = 0
  BY DEF Distance, Label
<1>2. Distance["exit"] = 1
  BY DEF Distance, Label
<1>3. Distance["tar"] = 2
  BY DEF Distance, Label
<1>4. Distance["list"] = 3
  BY DEF Distance, Label
<1>5. Distance["submodules"] = 4
  BY DEF Distance, Label
<1>6. Distance["log"] = 5
  BY DEF Distance, Label
<1>7. Distance["clean"] = 6
  BY DEF Distance, Label
<1>8. Distance["checkout"] = 7
  BY DEF Distance, Label
<1>9. Distance["deregister"] = 8
  BY DEF Distance, Label
<1>10. Distance["verify"] = 9
  BY DEF Distance, Label
<1>11. Distance["fetch"] = 10
  BY DEF Distance, Label
<1>12. Distance["origin"] = 11
  BY DEF Distance, Label
<1>13. Distance["init"] = 12
  BY DEF Distance, Label
<1>14. Distance["remove"] = 13
  BY DEF Distance, Label
<1> QED
  BY <1>1, <1>2, <1>3, <1>4, <1>5, <1>6, <1>7, <1>8, <1>9, <1>10, <1>11, <1>12, <1>13, <1>14

LEMMA LeftType ==
    ASSUME TypeOK
    PROVE  /\ Left \in 0 .. 69
           /\ Left = 0 <=> pc = "idle"
           /\ Distance[pc] \in 0 .. 13
           /\ Stage \in 0 .. 4
<1>1. Distance[pc] \in 0 .. 13 /\ (Distance[pc] = 0 <=> pc = "idle")
  <2>1. pc \in Label
    BY DEF TypeOK
  <2>2. \A l \in Label : Distance[l] \in 0 .. 13 /\ (Distance[l] = 0 <=> l = "idle")
    BY Distances DEF Label
  <2> QED
    BY <2>1, <2>2
<1>2. Stage \in 0 .. 4
  BY DEF Stage
<1> QED
  BY <1>1, <1>2 DEF Left

LEMMA LeftTypeNext ==
    ASSUME TypeOK'
    PROVE  Left' \in 0 .. 69
<1>1. Distance[pc'] \in 0 .. 13
  BY Distances DEF TypeOK, Label
<1>2. Stage' \in 0 .. 4
  BY DEF Stage
<1> QED
  BY <1>1, <1>2 DEF Left

(* A step that stays in its run, and a step that ends it.                  *)
LEMMA SameStageLowers ==
    ASSUME TypeOK, UNCHANGED run, pc # "idle", pc' \in Label, Distance[pc'] < Distance[pc]
    PROVE  Left' < Left
<1>1. Stage' = Stage /\ Distance[pc'] \in 0 .. 13
  BY Distances DEF Stage, run, Label
<1> QED
  BY <1>1, LeftType DEF Left

LEMMA EndLowers ==
    ASSUME TypeOK, UNCHANGED run, pc \notin {"idle", "exit"},
           pc' = IF outer = "no" THEN "idle" ELSE "exit"
    PROVE  Left' < Left
<1>1. Distance[pc'] < Distance[pc] /\ pc' \in Label
  BY Distances DEF TypeOK, Label
<1> QED
  BY <1>1, SameStageLowers

(* A run that the trap starts is in a lower stage.                         *)
LEMMA NextStageLowers ==
    ASSUME TypeOK, pc # "idle", pc' \in Label, Stage' < Stage
    PROVE  Left' < Left
<1>1. /\ Distance[pc] \in 1 .. 13 /\ Stage \in 0 .. 4
      /\ Distance[pc'] \in 0 .. 13 /\ Stage' \in 0 .. 4
  BY Distances DEF TypeOK, Label, Stage
<1> QED
  BY <1>1 DEF Left

(* The trap goes to another run, or ends the one that it has started.      *)
LEMMA OnErrorLowers ==
    ASSUME TypeOK, StageInv, pc \notin {"idle", "exit", "remove"}, NEW o \in Traps, OnError(o)
    PROVE  Left' < Left
<1>1. (ground # "own" => o \in {"no", "tar"}) /\ (o = "list" => pc = "list")
      /\ o \in {"no", "log", "list", "sed", "tar"}
  BY DEF Traps, At, StageInv
<1>2. CASE second /\ o = "list"
  <2>1. UNCHANGED run /\ pc' = "tar" /\ pc = "list"
    BY <1>1, <1>2 DEF OnError
  <2> QED
    BY <2>1, SameStageLowers, Distances DEF Label
<1>3. CASE second /\ o # "list"
  BY <1>3, EndLowers DEF OnError, End
<1>4. CASE ~second
  <2>1. second' = TRUE /\ outer' = o /\ pc' = "remove" /\ outer = "no"
    BY <1>4 DEF OnError, StageInv
  <2>2. Stage' < Stage
    BY <1>1, <1>4, <2>1 DEF Stage
  <2> QED
    BY <2>1, <2>2, NextStageLowers DEF Label
<1> QED
  BY <1>2, <1>3, <1>4

(* Every step of the script lowers what is left.                           *)
LEMMA ScriptLowers ==
    ASSUME TypeOK, StageInv, Script
    PROVE  Left' < Left
<1> USE DEF At, Goto
<1>1. CASE Remove \/ GitInit \/ RemoteOrigin \/ Fetch \/ Deregister \/ Checkout
  <2>1. UNCHANGED run /\ pc # "idle" /\ pc' \in Label /\ Distance[pc'] < Distance[pc]
    BY <1>1, Distances DEF Remove, GitInit, RemoteOrigin, Fetch, Deregister, Checkout, Going,
                           request, Label
  <2> QED
    BY <2>1, SameStageLowers
<1>2. CASE Clean \/ Log \/ Submodules \/ ListSubmodules
  <2>1. UNCHANGED run /\ pc # "idle" /\ pc' \in Label /\ Distance[pc'] < Distance[pc]
    BY <1>2, Distances DEF Clean, Log, Submodules, ListSubmodules, Going, request, Label
  <2> QED
    BY <2>1, SameStageLowers
<1>3. CASE Verify
  <2>1. UNCHANGED run /\ pc = "verify"
    BY <1>3 DEF Verify, request
  <2>2. pc' = "deregister" \/ pc' = IF outer = "no" THEN "idle" ELSE "exit"
    BY <1>3 DEF Verify, End
  <2>3. Distance["deregister"] < Distance["verify"]
    BY Distances
  <2> QED
    BY <2>1, <2>2, <2>3, SameStageLowers, EndLowers DEF Label
<1>4. CASE MkTarGz
  BY <1>4, EndLowers DEF MkTarGz, End, request
<1>5. CASE GoesOn
  <2>1. /\ outer \in {"log", "list"} /\ pc = "exit" /\ second' = FALSE /\ outer' = "no"
        /\ ground' \in {"new", "half"} /\ pc' \in {"submodules", "tar"}
    BY <1>5 DEF GoesOn
  <2>2. Stage' < Stage
    BY <2>1 DEF Stage
  <2> QED
    BY <2>1, <2>2, NextStageLowers DEF Label
<1>6. CASE TarGoesOn \/ Kill
  <2>1. pc # "idle" /\ Left' = 0
    BY <1>6 DEF TarGoesOn, Kill, Left
  <2> QED
    BY <2>1, LeftType
<1>7. CASE FailsAfter
  <2>1. /\ outer \in {"log", "sed", "tar"} /\ pc = "exit" /\ second' = second /\ outer' = "no"
        /\ pc' = "remove" /\ second
    BY <1>7 DEF FailsAfter, StageInv
  <2>2. Stage' < Stage
    BY <2>1 DEF Stage
  <2> QED
    BY <2>1, <2>2, NextStageLowers DEF Label
<1>8. CASE CacheFails
  BY <1>8, OnErrorLowers DEF CacheFails
<1>9. CASE Astray
  <2>1. pc \in {"submodules", "tar"} /\ \E o \in Traps : OnError(o)
    BY <1>9 DEF Astray, Traps
  <2> QED
    BY <2>1, OnErrorLowers
<1>10. CASE Fault
  <2>1. CASE pc = "verify"
    BY <1>10, <2>1, EndLowers DEF Fault, End, request
  <2>2. CASE pc = "remove"
    <3>1. UNCHANGED run /\ pc' = "init"
      BY <1>10, <2>2 DEF Fault, request
    <3> QED
      BY <2>2, <3>1, SameStageLowers, Distances DEF Label
  <2>3. CASE pc \notin {"verify", "remove"}
    <3>1. /\ pc \notin {"idle", "exit", "remove"}
          /\ (\E o \in Traps : OnError(o)) \/ (End(1) /\ UNCHANGED request)
      BY <1>10, <2>3 DEF Fault
    <3>2. CASE \E o \in Traps : OnError(o)
      BY <3>1, <3>2, OnErrorLowers
    <3>3. CASE End(1) /\ UNCHANGED request
      BY <3>1, <3>3, EndLowers DEF End, request
    <3> QED
      BY <3>1, <3>2, <3>3
  <2> QED
    BY <2>1, <2>2, <2>3
<1> QED
  BY <1>1, <1>2, <1>3, <1>4, <1>5, <1>6, <1>7, <1>8, <1>9, <1>10 DEF Script

(* Nothing else touches it while a request is under way.                   *)
LEMMA OnlyTheScriptMoves ==
    ASSUME TypeOK, StageInv, TypeOK', [Next]_vars, pc # "idle"
    PROVE  Left' <= Left
<1>1. CASE Script
  <2>1. Left' < Left /\ Left \in 0 .. 69 /\ Left' \in 0 .. 69
    BY <1>1, ScriptLowers, LeftType, LeftTypeNext
  <2> QED
    BY <2>1
<1>2. CASE UNCHANGED vars
  <2>1. Left' = Left
    BY <1>2 DEF vars, request, run, Left, Stage
  <2> QED
    BY <2>1, LeftType
<1>3. ~Meddle /\ ~(\E c \in Cset, r \in BOOLEAN : Request(c, r))
  BY DEF Meddle, Request
<1> QED
  BY <1>1, <1>2, <1>3 DEF Next

(* n commands fewer: a request that has at most j + n of them left comes   *)
(* to have at most j left.                                                 *)
Lowers(j, n) == Left <= j + n ~> Left <= j

LEMMA OneStage ==
    ASSUME NEW j \in Nat
    PROVE  Spec /\ Scheduled => Lowers(j, 1)
<1>0. GInv => TypeOK /\ StageInv
  BY DEF GInv
<1>1. GInv /\ GInv' /\ Left <= j + 1 /\ [Next]_vars => (Left <= j + 1)' \/ Left <= j
  <2> SUFFICES ASSUME GInv, GInv', Left <= j + 1, [Next]_vars, ~(Left <= j)
               PROVE  Left' <= j + 1
    OBVIOUS
  <2>1. TypeOK /\ StageInv /\ TypeOK'
    BY DEF GInv
  <2>2. pc # "idle"
    BY <2>1, LeftType
  <2>3. Left' <= Left /\ Left \in 0 .. 69 /\ Left' \in 0 .. 69
    BY <2>1, <2>2, OnlyTheScriptMoves, LeftType, LeftTypeNext
  <2> QED
    BY <2>3
<1>2. GInv /\ GInv' /\ Left <= j + 1 /\ <<Script>>_vars => (Left <= j)'
  <2> SUFFICES ASSUME GInv, GInv', Left <= j + 1, Script
               PROVE  Left' <= j
    OBVIOUS
  <2>1. TypeOK /\ StageInv /\ TypeOK'
    BY DEF GInv
  <2>2. Left' < Left /\ Left \in 0 .. 69 /\ Left' \in 0 .. 69
    BY <2>1, ScriptLowers, LeftType, LeftTypeNext
  <2> QED
    BY <2>2
<1>3. GInv /\ pc = "idle" => Left <= j
  BY <1>0, LeftType
<1> QED
  BY <1>1, <1>2, <1>3, Invariance, PTL DEF Spec, Scheduled, Lowers

LEMMA TwoStages ==
    ASSUME NEW j \in Nat, NEW n \in Nat, NEW m \in Nat, m = n + n
    PROVE  Spec /\ Lowers(j, n) /\ Lowers(j + n, n) => Lowers(j, m)
<1>1. TypeOK /\ Left <= j + m => Left <= (j + n) + n
  BY LeftType
<1> QED
  BY <1>1, GitTyping, PTL DEF Lowers

(* A request that is under way ends, when the script goes on               *)
(* (support/download/git:35-247): the trap cannot start it anew for ever.  *)
THEOREM RequestsEnd == Spec /\ Scheduled => EveryRequestEnds
<1> DEFINE All(n) == \A j \in Nat : Spec /\ Scheduled => Lowers(j, n)
<1>1. ASSUME NEW n \in Nat, NEW m \in Nat, m = n + n
      PROVE  All(n) => All(m)
  <2>1. \A j \in Nat : j + n \in Nat
    OBVIOUS
  <2> QED
    BY <1>1, <2>1, TwoStages
<1>2. All(1)
  BY OneStage
<1>3. All(128)
  <2>1. /\ 2 = 1 + 1 /\ 4 = 2 + 2 /\ 8 = 4 + 4 /\ 16 = 8 + 8 /\ 32 = 16 + 16
        /\ 64 = 32 + 32 /\ 128 = 64 + 64
    OBVIOUS
  <2>2. {1, 2, 4, 8, 16, 32, 64, 128} \subseteq Nat
    OBVIOUS
  <2>3. All(2)
    BY <1>1, <1>2, <2>1, <2>2
  <2>4. All(8)
    BY <1>1, <2>1, <2>2, <2>3
  <2>5. All(32)
    BY <1>1, <2>1, <2>2, <2>4
  <2> QED
    BY <1>1, <2>1, <2>2, <2>5
<1>4. Spec /\ Scheduled => Lowers(0, 128)
  BY <1>3
<1>5. TypeOK => Left <= 0 + 128 /\ (Left <= 0 => pc = "idle")
  BY LeftType
<1> QED
  BY <1>4, <1>5, GitTyping, PTL DEF Lowers, EveryRequestEnds

(* No command waits for something that never comes: of the guards other    *)
(* than the label, fetch's remote has been set, a checkout with a lock     *)
(* left over is one that fails, and so are the submodules beside another   *)
(* cache.                                                                  *)
LEMMA FetchHasOrigin == Spec => [](pc = "fetch" => origin)
<1> DEFINE Inv == pc = "fetch" => origin
<1>1. Init => Inv
  BY DEF Init
<1>2. Inv /\ [Next]_vars => Inv'
  <2> SUFFICES ASSUME Inv, [Next]_vars, pc' = "fetch"
               PROVE  origin'
    OBVIOUS
  <2> USE DEF At, Goto, Going, End
  <2>1. CASE \E c \in Cset, r \in BOOLEAN : Request(c, r)
    BY <2>1 DEF Request
  <2>2. CASE Meddle \/ Remove \/ GitInit \/ RemoteOrigin \/ Fetch \/ Verify \/ Deregister
    BY <2>2 DEF Meddle, Remove, GitInit, RemoteOrigin, Fetch, Verify, Deregister
  <2>3. CASE Checkout \/ Clean \/ Log \/ Submodules \/ ListSubmodules \/ MkTarGz \/ Kill
    BY <2>3 DEF Checkout, Clean, Log, Submodules, ListSubmodules, MkTarGz, Kill
  <2>4. CASE GoesOn \/ TarGoesOn \/ FailsAfter
    BY <2>4 DEF GoesOn, TarGoesOn, FailsAfter
  <2>5. CASE CacheFails \/ Astray \/ Fault
    BY <2>5 DEF CacheFails, Astray, Fault, OnError
  <2>6. CASE UNCHANGED vars
    BY <2>6 DEF vars, cache
  <2> QED
    BY <2>1, <2>2, <2>3, <2>4, <2>5, <2>6 DEF Next, Script
<1> QED
  BY <1>1, <1>2, PTL DEF Spec

(* The same of FairSpec, for a script that can take a step whenever it has *)
(* not ended.                                                              *)
THEOREM FairRequestsEnd ==
    FairSpec /\ [](pc # "idle" => ENABLED <<Script>>_vars) => EveryRequestEnds
<1>1. pc # "idle" \/ pc = "idle"
  OBVIOUS
<1>2. FairSpec /\ [](pc # "idle" => ENABLED <<Script>>_vars) => Scheduled
  BY <1>1, PTL DEF FairSpec, Scheduled
<1> QED
  BY <1>2, RequestsEnd, PTL DEF FairSpec

=============================================================================
