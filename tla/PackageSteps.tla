---------------------------- MODULE PackageSteps ----------------------------
(***************************************************************************)
(* The rules that package/pkg-generic.mk writes for every package: its     *)
(* steps, each with a stamp file, what each step waits for, and the stamps *)
(* that the -reinstall, -rebuild and -reconfigure targets remove.          *)
(***************************************************************************)
EXTENDS Naturals, Sequences, FiniteSets

CONSTANTS
    Package,
    Kinds,          \* [Package -> SUBSET Kind]: _TYPE and _INSTALL_{STAGING,TARGET,IMAGES}
    Override,       \* the packages with an _OVERRIDE_SRCDIR
    Deps            \* [Package -> [Preparing -> SUBSET Package]]: _FINAL_*DEPENDENCIES

Kind == {"host", "staging", "target", "images"}
Source == {"downloaded", "extracted", "patched"}
Step == Source \cup {"rsynced", "configured", "built", "installed"} \cup Kind

(* The steps that wait for packages and copy their files: the download,    *)
(* extract and configure dependencies.                                     *)
Preparing == {"downloaded", "extracted", "configured"}

ASSUME PackageAssumption ==
    /\ IsFiniteSet(Package)
    /\ Kinds \in [Package -> SUBSET Kind]
    /\ Override \subseteq Package
    /\ Deps \in [Package -> [Preparing -> SUBSET Package]]

Steps == [p \in Package |->
    Kinds[p] \cup {"configured", "built", "installed"} \cup
        (IF p \in Override THEN {"rsynced"} ELSE Source)]

Node == {n \in Package \X Step : n[2] \in Steps[n[1]]}

(* The prerequisites of each stamp, less the order-only ones: a stamp that *)
(* one of these is newer than is made again.                               *)
Normal(s) ==
    CASE s = "extracted" -> {"downloaded"}
      [] s = "patched" -> {"extracted"}
      [] s = "configured" -> {"patched"}
      [] s = "built" -> {"configured"}
      [] s \in Kind \ {"target"} -> {"built"}
      [] s = "target" -> {"built", "staging"}
      [] s = "installed" -> {"built"} \cup Kind
      [] OTHER -> {}

(* A step that only has to be there first: it remakes nothing.             *)
OrderOnly(s) == IF s = "configured" THEN {"rsynced"} ELSE {}

(* Every step that is made before step s: the least set of steps that has  *)
(* the prerequisites of s and those of each of its members.                *)
Prerequisites(s) == Normal(s) \cup OrderOnly(s)

Before == [s \in Step |->
    {t \in Step : \A S \in SUBSET Step :
        (Prerequisites(s) \subseteq S /\ \A r \in S : Prerequisites(r) \subseteq S) => t \in S}]

(* The packages that p depends on, directly and through others.            *)
DirectDeps(p) == UNION {Deps[p][s] : s \in Preparing \cap Steps[p]}

Closure == [p \in Package |->
    {q \in Package : \A S \in SUBSET Package :
        (DirectDeps(p) \subseteq S /\ \A r \in S : DirectDeps(r) \subseteq S) => q \in S}]

ASSUME Acyclic == \A p \in Package : p \notin Closure[p]

(* The packages that must be installed before step s of p is made.         *)
Needs == [p \in Package |-> [s \in Step |->
    LET direct == UNION {Deps[p][t] : t \in ({s} \cup Before[s]) \cap Preparing \cap Steps[p]}
    IN  direct \cup UNION {Closure[q] : q \in direct}]]

(* Mutant of Reach: the order-only prerequisites on packages are left out. *)
ReachOwnSteps == [p \in Package |-> [s \in Step |->
    {n \in Node : n[1] = p /\ n[2] \in Before[s]}]]

(* Mutant of Reach: install-staging waits for install-target as well as    *)
(* the other way round.                                                    *)
ReachBothWays == [p \in Package |-> [s \in Step |->
    {n \in Node : \/ n[1] = p /\ n[2] \in Before[s]
                  \/ n[1] = p /\ s = "staging" /\ n[2] = "target"
                  \/ n[1] \in Needs[p][s]}]]

(* Everything that make brings up to date before it looks at step s of p.  *)
Reach == [p \in Package |-> [s \in Step |->
    {n \in Node : \/ n[1] = p /\ n[2] \in Before[s]
                  \/ n[1] \in Needs[p][s]}]]

(* The steps under which the files of p get into a tree: the staging       *)
(* directory is inside the host one.                                       *)
Dir == {"host", "target"}
Installing(p, d) == Kinds[p] \cap IF d = "host" THEN {"host", "staging"} ELSE {"target"}

-----------------------------------------------------------------------------

(* What the helper targets of a package remove, one rm after the other.    *)
CleanForReinstall(p) ==
    (IF p \in Override THEN <<"rsynced">> ELSE <<>>)
        \o <<"installed", "staging", "target", "images", "host">>

(* Mutant of CleanForRebuild: the stamp of the build is kept.              *)
CleanForRebuildKeeps(p) == CleanForReinstall(p)

CleanForRebuild(p) == CleanForReinstall(p) \o <<"built">>

CleanForReconfigure(p) == CleanForRebuild(p) \o <<"configured">>

=============================================================================
