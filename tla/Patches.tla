------------------------------ MODULE Patches ------------------------------
(***************************************************************************)
(* The patch step of a package: the recipe of .stamp_patched in            *)
(* package/pkg-generic.mk and the script support/scripts/apply-patches.sh  *)
(* that it calls for every place where patches may be.  patch(1) itself is *)
(* external.  make may be killed at any moment and is run again, on the    *)
(* build directory as it was left.                                         *)
(***************************************************************************)
EXTENDS Naturals, Sequences

CONSTANTS
    Dirs,       \* directories of patches, and archives of patches when unpacked
    Layouts,    \* what may be in them, in the order of ls or of the series file
    Calls,      \* Seq(Dirs): what the recipe calls apply-patches.sh for, in order
    Matches,    \* <<n, p>>: n, as a regular expression, finds p on the list
    MaxFaults   \* bound on failures of any kind

\* "other" has no ending of a patch; "gone" is named by a series file and not there.
Entry == [kind : {"patch", "other", "gone"}, name : STRING] \cup [kind : {"dir"}, name : Dirs]

ASSUME PatchesAssumption ==
    /\ \A l \in Layouts : l \in [Dirs -> Seq(Entry)]
    /\ Calls \in Seq(Dirs) /\ Calls # <<>>

VARIABLES
    contents,   \* the layout there is
    sources,    \* what has been done to the sources: patches, whole, short or in part
    list,       \* .applied_patches_list
    patched,    \* .stamp_patched
    call,       \* the call of the recipe that is running, or 0
    todo,       \* the entries it has still to look at, with their directories
    patching,   \* the patch that patch(1) is at work on, in a sequence of one
    faults

tree == <<contents, sources, list, patched>>
recipe == <<call, todo, patching>>

Quiet == call' = 0 /\ todo' = <<>> /\ patching' = <<>>
Extracted == sources' = <<>> /\ list' = <<>> /\ patched' = FALSE /\ UNCHANGED contents
Fault == faults < MaxFaults /\ faults' = faults + 1

-----------------------------------------------------------------------------

Scan(d) == [i \in DOMAIN contents[d] |-> [dir |-> d, entry |-> contents[d][i]]]

(* The script's start.  The rejects of an earlier run go away; that the    *)
(* script finds some at its end is left out, for it has stopped before.    *)
Call(k) ==
    /\ call' = k /\ todo' = Scan(Calls[k]) /\ patching' = <<>>
    /\ UNCHANGED <<tree, faults>>

Running == call # 0 /\ patching = <<>>
At(kind) == Running /\ todo # <<>> /\ Head(todo).entry.kind = kind
Top == [dir |-> Head(todo).dir, name |-> Head(todo).entry.name]

(* The script, and with it the recipe and make, exits with an error.       *)
Abort == Quiet /\ UNCHANGED <<tree, faults>>

(* scan_patchdir, for a directory or an archive that it unpacks.           *)
Descend ==
    /\ At("dir")
    /\ todo' = Scan(Top.name) \o Tail(todo)
    /\ UNCHANGED <<tree, call, patching, faults>>

Skip ==
    /\ At("other")
    /\ todo' = Tail(todo)
    /\ UNCHANGED <<tree, call, patching, faults>>

Missing == At("gone") /\ Abort

(* The list is searched for the file's name, whatever its directory.  The  *)
(* name is taken for a regular expression, which may find other files and  *)
(* need not find the file itself (0003-fix-C++14.patch does not).          *)
Known(p) == \E i \in DOMAIN list : <<p.name, list[i]>> \in Matches

Duplicate == At("patch") /\ Known(Top) /\ Abort

(* Mutant of Note: the list is kept for the record only.                   *)
NoteOnly ==
    /\ At("patch")
    /\ list' = Append(list, Top) /\ patching' = <<Top>> /\ todo' = Tail(todo)
    /\ UNCHANGED <<contents, sources, patched, call, faults>>

(* The patch is put on the list before it is applied.                      *)
Note ==
    /\ At("patch") /\ ~Known(Top)
    /\ list' = Append(list, Top) /\ patching' = <<Top>> /\ todo' = Tail(todo)
    /\ UNCHANGED <<contents, sources, patched, call, faults>>

Done(how) == sources' = Append(sources, [patch |-> Head(patching), how |-> how])

(* patch(1) finds its context, be it a second time.                        *)
Apply ==
    /\ patching # <<>>
    /\ Done("whole")
    /\ patching' = <<>>
    /\ UNCHANGED <<contents, list, patched, call, todo, faults>>

(* The decompressor, or cat, fails before the pipe.  patch(1) has nothing  *)
(* or the beginning to apply and is content, and only it is asked.         *)
Short ==
    /\ patching # <<>> /\ Fault
    /\ Done("short")
    /\ patching' = <<>>
    /\ UNCHANGED <<contents, list, patched, call, todo>>

(* It does not, in some of the files.                                      *)
Reject ==
    /\ patching # <<>> /\ Fault
    /\ Done("part")
    /\ Quiet
    /\ UNCHANGED <<contents, list, patched>>

(* The end of a call, and of the last one, which makes the stamp.          *)
Finish ==
    /\ Running /\ todo = <<>>
    /\ \/ call < Len(Calls) /\ Call(call + 1)
       \/ /\ call = Len(Calls)
          /\ patched' = TRUE
          /\ Quiet
          /\ UNCHANGED <<contents, sources, list, faults>>

ApplyPatches == Descend \/ Skip \/ Missing \/ Duplicate \/ Note \/ Apply \/ Short \/ Reject \/ Finish

(* Killed; patch(1) may have done some of its work.                        *)
Cut ==
    /\ Quiet
    /\ \/ UNCHANGED sources
       \/ patching # <<>> /\ Done("part")
    /\ UNCHANGED <<contents, list, patched>>

-----------------------------------------------------------------------------

(* What a directory of layout l has of one kind.                           *)
Names(l, d, kind) == {l[d][i].name : i \in {i \in DOMAIN l[d] : l[d][i].kind = kind}}

(* The directories ds, and those nested in them.                           *)
Under(l, ds) ==
    {d \in Dirs : \A S \in SUBSET Dirs :
        (ds \subseteq S /\ \A x \in S : Names(l, x, "dir") \subseteq S) => d \in S}

PatchesIn(l, ds) == UNION {{[dir |-> d, name |-> n] : n \in Names(l, d, "patch")} : d \in Under(l, ds)}

Wanted == PatchesIn(contents, {Calls[i] : i \in DOMAIN Calls})

Before(p, q) ==
    /\ p.dir = q.dir
    /\ \E i, j \in DOMAIN contents[p.dir] :
          /\ i < j
          /\ contents[p.dir][i] = [kind |-> "patch", name |-> p.name]
          /\ contents[p.dir][j] = [kind |-> "patch", name |-> q.name]

(* The names that are to be searched for are found where they are.         *)
Findable == \A p, q \in Wanted : p.name = q.name => <<p.name, q>> \in Matches

(* What is built has been patched: every patch that is to be applied has   *)
(* been given to patch(1) once, in the order of its directory, and none    *)
(* was refused or cut off, whatever was refused or cut off before          *)
(* (apply-patches.sh:108-117).  Two exceptions are the code's: a patch may *)
(* be short, as the status of the decompressor at line 117 is lost, and    *)
(* names that grep does not find are not looked after.                     *)
PatchedOnce ==
    patched /\ Findable =>
        /\ \A i \in DOMAIN sources : sources[i].how # "part" /\ sources[i].patch \in Wanted
        /\ \A p \in Wanted : \E i \in DOMAIN sources : sources[i].patch = p
        /\ \A i, j \in DOMAIN sources :
              i < j => sources[i].patch # sources[j].patch /\ ~Before(sources[j].patch, sources[i].patch)
=============================================================================
