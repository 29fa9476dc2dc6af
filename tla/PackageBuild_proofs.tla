------------------------ MODULE PackageBuild_proofs ------------------------
(***************************************************************************)
(* For any packages, any dependencies between them and any number of jobs, *)
(* runs, edits and faults: while a package is made its dependencies are    *)
(* installed and nothing works on them; the directory of a package has its *)
(* own files and those of its dependencies, all of them and no others, and *)
(* its list of files its own; when `make all' succeeds nothing is missing, *)
(* and when a -rebuild by make -j1 does, the sources are what is installed;*)
(* make is never stuck, and every run of it ends.                          *)
(***************************************************************************)
EXTENDS PackageBuild, WellFoundedInduction, FiniteSetTheorems, TLAPS

-----------------------------------------------------------------------------
(* Dependencies, and the last of several packages.                         *)

LEMMA DirectInClosure ==
    ASSUME NEW p \in Package, NEW q \in DirectDeps(p)
    PROVE  q \in Closure[p]
BY PackageAssumption DEF Closure, DirectDeps

LEMMA ClosureIsTransitive ==
    ASSUME NEW p \in Package, NEW q \in Closure[p]
    PROVE  Closure[q] \subseteq Closure[p]
<1>1. q \in Package
  BY DEF Closure
<1> SUFFICES ASSUME NEW x \in Closure[q], NEW S \in SUBSET Package,
                    DirectDeps(p) \subseteq S, \A r \in S : DirectDeps(r) \subseteq S
             PROVE  x \in S
  BY <1>1 DEF Closure
<1>2. q \in S
  BY DEF Closure
<1> QED
  BY <1>1, <1>2 DEF Closure

LEMMA LastExists ==
    ASSUME NEW n \in Nat, NEW F \in SUBSET (1 .. n), F # {}
    PROVE  \E i \in F : \A j \in F : j <= i
<1> DEFINE T == {n - i : i \in F}
<1>1. T \subseteq Nat /\ T # {}
  <2>1. \A i \in F : i \in 1 .. n /\ n - i \in Nat
    OBVIOUS
  <2> QED
    BY <2>1
<1>2. PICK m \in T : \A y \in T : ~ (<<y, m>> \in OpToRel(<, Nat))
  BY <1>1, WFMin, NatLessThanWellFounded
<1>3. \A y \in T : ~ (y < m)
  BY <1>1, <1>2 DEF OpToRel
<1>4. PICK i \in F : m = n - i
  BY <1>2
<1>5. ASSUME NEW j \in F PROVE j <= i
  <2>1. n - j \in T /\ j \in Int /\ i \in Int
    OBVIOUS
  <2> QED
    BY <1>3, <1>4, <2>1
<1> QED
  BY <1>5

LEMMA RsyncTakesOneOrNone ==
    ASSUME NEW Q \in SUBSET Package, NEW into \in Tree, NEW d \in Dir, NEW x \in Package
    PROVE  \/ /\ Rsync(Q, into)[d][x] = tree[into][d][x]
              /\ \A q \in Q : tree[q][d][x] = Absent
           \/ \E q \in Q : tree[q][d][x] # Absent /\ Rsync(Q, into)[d][x] = tree[q][d][x]
<1> DEFINE from == {i \in DOMAIN Order : Order[i] \in Q /\ tree[Order[i]][d][x] # Absent}
<1>1. Rsync(Q, into)[d][x] =
          IF from = {} THEN tree[into][d][x]
          ELSE tree[Order[CHOOSE i \in from : \A j \in from : j <= i]][d][x]
  BY DEF Rsync
<1>2. CASE from # {}
  <2>1. Len(Order) \in Nat /\ from \in SUBSET (1 .. Len(Order))
    BY BuildAssumption
  <2>2. \E i \in from : \A j \in from : j <= i
    BY <1>2, <2>1, LastExists
  <2> DEFINE last == CHOOSE i \in from : \A j \in from : j <= i
  <2>3. last \in from
    BY <2>2
  <2>4. Rsync(Q, into)[d][x] = tree[Order[last]][d][x]
    BY <1>1, <1>2
  <2> HIDE DEF last
  <2> QED
    BY <2>3, <2>4
<1>3. CASE from = {}
  <2>1. \A q \in Q : \E i \in DOMAIN Order : Order[i] = q
    BY BuildAssumption
  <2>2. \A q \in Q : tree[q][d][x] = Absent
    BY <1>3, <2>1
  <2> QED
    BY <1>1, <1>3, <2>2
<1> QED
  BY <1>2, <1>3

LEMMA RsyncTakesOne ==
    ASSUME NEW Q \in SUBSET Package, NEW into \in Tree, NEW d \in Dir, NEW x \in Package
    PROVE  \/ Rsync(Q, into)[d][x] = tree[into][d][x]
           \/ \E q \in Q : tree[q][d][x] # Absent /\ Rsync(Q, into)[d][x] = tree[q][d][x]
BY RsyncTakesOneOrNone

LEMMA RsyncKeeps ==
    ASSUME NEW Q \in SUBSET Package, NEW into \in Tree, NEW d \in Dir, NEW x \in Package,
           tree[into][d][x] # Absent \/ \E q \in Q : tree[q][d][x] # Absent
    PROVE  Rsync(Q, into)[d][x] # Absent
<1>1. \/ /\ Rsync(Q, into)[d][x] = tree[into][d][x]
         /\ \A q \in Q : tree[q][d][x] = Absent
      \/ \E q \in Q : tree[q][d][x] # Absent /\ Rsync(Q, into)[d][x] = tree[q][d][x]
  BY RsyncTakesOneOrNone
<1> QED
  BY <1>1

-----------------------------------------------------------------------------
(* The steps of a package.                                                 *)

LEMMA PrerequisiteTypes == \A s \in Step : Prerequisites(s) \subseteq Step
BY DEF Prerequisites, Normal, OrderOnly, Step, Source, Kind

LEMMA BeforeHasPrerequisites ==
    ASSUME NEW s \in Step
    PROVE  Before[s] \subseteq Step /\ Prerequisites(s) \subseteq Before[s]
BY PrerequisiteTypes DEF Before

LEMMA BeforeIsClosed ==
    ASSUME NEW s \in Step, NEW t \in Before[s]
    PROVE  Prerequisites(t) \subseteq Before[s]
<1> SUFFICES ASSUME NEW r \in Prerequisites(t), NEW S \in SUBSET Step,
                    Prerequisites(s) \subseteq S, \A x \in S : Prerequisites(x) \subseteq S
             PROVE  r \in S
  BY PrerequisiteTypes, BeforeHasPrerequisites DEF Before
<1>1. t \in S
  BY DEF Before
<1> QED
  BY <1>1

(* A step comes before s when it is a prerequisite of s or comes before    *)
(* one of them.                                                            *)
LEMMA BeforeUnfolds ==
    ASSUME NEW s \in Step
    PROVE  Before[s] = Prerequisites(s) \cup UNION {Before[t] : t \in Prerequisites(s)}
<1> DEFINE U == Prerequisites(s) \cup UNION {Before[t] : t \in Prerequisites(s)}
<1>1. Before[s] \subseteq U
  <2>1. U \in SUBSET Step /\ Prerequisites(s) \subseteq U
    BY PrerequisiteTypes, BeforeHasPrerequisites
  <2>2. \A r \in U : Prerequisites(r) \subseteq U
    BY PrerequisiteTypes, BeforeHasPrerequisites, BeforeIsClosed
  <2> HIDE DEF U
  <2> QED
    BY <2>1, <2>2 DEF Before
<1>2. ASSUME NEW t \in Prerequisites(s) PROVE Before[t] \subseteq Before[s]
  <2>1. t \in Step /\ t \in Before[s]
    BY PrerequisiteTypes, BeforeHasPrerequisites
  <2>2. Prerequisites(t) \subseteq Before[s] /\ \A r \in Before[s] : Prerequisites(r) \subseteq Before[s]
    BY <2>1, BeforeIsClosed
  <2>3. Before[s] \in SUBSET Step
    BY BeforeHasPrerequisites
  <2> QED
    BY <2>1, <2>2, <2>3 DEF Before
<1> QED
  BY <1>1, <1>2, BeforeHasPrerequisites

(* What comes before each step.                                            *)
LEMMA BeforeTable ==
    /\ Before["downloaded"] = {} /\ Before["rsynced"] = {}
    /\ Before["extracted"] = {"downloaded"}
    /\ Before["patched"] = {"downloaded", "extracted"}
    /\ Before["configured"] = Source \cup {"rsynced"}
    /\ Before["built"] = Source \cup {"rsynced", "configured"}
    /\ \A k \in Kind \ {"target"} : Before[k] = Before["built"] \cup {"built"}
    /\ Before["target"] = Before["built"] \cup {"built", "staging"}
    /\ Before["installed"] = Before["built"] \cup {"built"} \cup Kind
<1> USE BeforeUnfolds DEF Step, Source, Kind, Prerequisites, Normal, OrderOnly
<1>1. Before["downloaded"] = {} /\ Before["rsynced"] = {}
  OBVIOUS
<1>2. Before["extracted"] = {"downloaded"}
  BY <1>1
<1>3. Before["patched"] = {"downloaded", "extracted"}
  BY <1>2
<1>4. Before["configured"] = Source \cup {"rsynced"}
  BY <1>1, <1>3
<1>5. Before["built"] = Source \cup {"rsynced", "configured"}
  BY <1>4
<1>6. \A k \in Kind \ {"target"} : Before[k] = Before["built"] \cup {"built"}
  OBVIOUS
<1>7. Before["target"] = Before["built"] \cup {"built", "staging"}
  BY <1>6
<1>8. Before["installed"] = Before["built"] \cup {"built"} \cup Kind
  BY <1>6, <1>7
<1> QED
  BY <1>1, <1>2, <1>3, <1>4, <1>5, <1>6, <1>7, <1>8

LEMMA BeforeIsTransitive ==
    ASSUME NEW u \in Step, NEW t \in Before[u], NEW s \in Before[t]
    PROVE  s \in Before[u]
<1>1. t \in Step
  BY BeforeHasPrerequisites
<1>2. Before[u] \in SUBSET Step /\ Prerequisites(t) \subseteq Before[u]
  BY BeforeHasPrerequisites, BeforeIsClosed
<1> QED
  BY <1>1, <1>2, BeforeIsClosed DEF Before

-----------------------------------------------------------------------------
(* Whose files are where.                                                  *)

Files == [Dir -> [Package -> Version]]

TypeOK ==
    /\ ppd \in BOOLEAN
    /\ ext \in [Package -> Version] /\ work \in [Package -> Version] /\ obj \in [Package -> Version]
    /\ tree \in [Tree -> Files]
    /\ since \in [Package -> SUBSET Package] /\ listed \in [Package -> SUBSET Package]
    /\ todo \subseteq Node /\ running \subseteq Node

(* What is in the tree of a package is its own or of a dependency's.       *)
OwnTree == ppd =>
    \A p, q \in Package : \A d \in Dir : tree[p][d][q] # Absent => q \in Closure[p] \cup {p}

(* What has been installed since the configure step is the package's own.  *)
OwnSince == ppd => \A p \in Package : since[p] \subseteq {p}

OwnInv == TypeOK /\ OwnTree /\ OwnSince /\ ListsOwnFiles

LEMMA InitOwn == Init => OwnInv
<1> SUFFICES ASSUME Init PROVE OwnInv
  OBVIOUS
<1>1. Absent \in Version /\ Pristine \in Version
  BY DEF Version
<1>2. TypeOK
  BY <1>1 DEF Init, TypeOK, Files
<1>3. \A p, q \in Package : \A d \in Dir : tree[p][d][q] = Absent
  BY DEF Init, Tree
<1> QED
  BY <1>2, <1>3 DEF Init, OwnInv, OwnTree, OwnSince, ListsOwnFiles

LEMMA RsyncType ==
    ASSUME TypeOK, NEW Q \in SUBSET Package, NEW into \in Tree
    PROVE  Rsync(Q, into) \in Files
<1>1. \A d \in Dir : \A x \in Package : Rsync(Q, into)[d][x] \in Version
  <2> TAKE d \in Dir
  <2> TAKE x \in Package
  <2>1. \A t \in Tree : tree[t][d][x] \in Version
    BY DEF TypeOK, Files
  <2> QED
    BY <2>1, RsyncTakesOne DEF Tree
<1> DEFINE v(d, x) ==
        LET from == {i \in DOMAIN Order : Order[i] \in Q /\ tree[Order[i]][d][x] # Absent}
        IN  IF from = {} THEN tree[into][d][x]
            ELSE tree[Order[CHOOSE i \in from : \A j \in from : j <= i]][d][x]
<1>2. Rsync(Q, into) = [d \in Dir |-> [x \in Package |-> v(d, x)]]
  BY DEF Rsync
<1> HIDE DEF v
<1>3. \A d \in Dir : \A x \in Package : v(d, x) \in Version
  BY <1>1, <1>2
<1> QED
  BY <1>2, <1>3 DEF Files

LEMMA EffectsOwn ==
    ASSUME OwnInv, NEW D, Effects(D), UNCHANGED <<ppd, ext, listed>>, todo' \subseteq todo, running' \subseteq running
    PROVE  OwnInv'
<1> USE DEF OwnInv
<1>1. work' \in [Package -> Version]
  BY DEF Effects, TypeOK, Version
<1>2. obj' \in [Package -> Version]
  BY DEF Effects, TypeOK
<1>3. tree' \in [Tree -> Files]
  <2>1. CASE \A n \in D : n[2] \notin Kind
    BY <2>1 DEF Effects, TypeOK
  <2>2. CASE ~(\A n \in D : n[2] \notin Kind)
    <3>1. tree' = [t \in Tree |-> [d \in Dir |-> [p \in Package |->
                        IF t = TreeOf(p) /\ \E s \in Installing(p, d) : <<p, s>> \in D
                        THEN obj[p] ELSE tree[t][d][p]]]]
      BY <2>2 DEF Effects
    <3>2. \A t \in Tree, d \in Dir, p \in Package : tree[t][d][p] \in Version /\ obj[p] \in Version
      BY DEF TypeOK, Files
    <3> QED
      BY <3>1, <3>2 DEF Files
  <2> QED
    BY <2>1, <2>2
<1>4. since' \in [Package -> SUBSET Package]
  BY DEF Effects, TypeOK
<1>5. TypeOK'
  BY <1>1, <1>2, <1>3, <1>4 DEF TypeOK
<1>6. OwnTree'
  <2> SUFFICES ASSUME ppd, NEW p \in Package, NEW q \in Package, NEW d \in Dir, tree'[p][d][q] # Absent
               PROVE  q \in Closure[p] \cup {p}
    BY DEF OwnTree
  <2>1. tree'[p][d][q] = tree[p][d][q] \/ p = TreeOf(q)
    BY DEF Effects, Tree
  <2> QED
    BY <2>1 DEF OwnTree, TreeOf
<1>7. OwnSince'
  BY DEF OwnSince, Effects, TreeOf
<1>8. ListsOwnFiles'
  BY DEF ListsOwnFiles
<1> QED
  BY <1>5, <1>6, <1>7, <1>8

LEMMA StartOwn ==
    ASSUME OwnInv, NEW p \in Package, NEW s, <<p, s>> \in Node, Start(p, s)
    PROVE  OwnInv'
<1> USE DEF OwnInv
<1>1. UNCHANGED <<ppd, ext, work, obj, todo>> /\ running' \subseteq Node /\ ListFiles(p, s)
  BY DEF Start, user, TypeOK
<1>2. since' \in [Package -> SUBSET Package] /\ listed' \in [Package -> SUBSET Package]
  BY <1>1 DEF ListFiles, PrepareDirs, TypeOK
<1>3. OwnSince' /\ ListsOwnFiles'
  BY <1>1 DEF ListFiles, PrepareDirs, TypeOK, OwnSince, ListsOwnFiles
<1>4. CASE UNCHANGED tree
  BY <1>1, <1>2, <1>3, <1>4 DEF TypeOK, OwnTree
<1>5. CASE ppd /\ s \in Preparing /\ tree' = [tree EXCEPT ![p] = Rsync(Deps[p][s], p)]
  <2>1. Deps[p][s] \in SUBSET Package
    BY <1>5, PackageAssumption
  <2>2. \A q \in Deps[p][s] : q \in Closure[p] /\ Closure[q] \subseteq Closure[p]
    <3>1. s \in Steps[p]
      BY DEF Node
    <3>2. Deps[p][s] \subseteq DirectDeps(p)
      BY <1>5, <3>1 DEF DirectDeps
    <3> QED
      BY <3>2, DirectInClosure, ClosureIsTransitive
  <2>3. tree' \in [Tree -> Files]
    BY <1>5, <2>1, RsyncType DEF TypeOK, Tree
  <2>4. OwnTree'
    <3> SUFFICES ASSUME NEW r \in Package, NEW q \in Package, NEW d \in Dir, tree'[r][d][q] # Absent
                 PROVE  q \in Closure[r] \cup {r}
      BY DEF OwnTree
    <3>1. CASE r # p
      BY <1>5, <3>1 DEF OwnTree, TypeOK
    <3>2. CASE r = p
      <4>1. tree'[p][d][q] = Rsync(Deps[p][s], p)[d][q]
        BY <1>5 DEF TypeOK, Tree
      <4>2. \/ tree[p][d][q] # Absent
            \/ \E x \in Deps[p][s] : tree[x][d][q] # Absent
        <5>1. p \in Tree
          BY DEF Tree
        <5> QED
          BY <2>1, <3>2, <4>1, <5>1, RsyncTakesOne
      <4> QED
        BY <1>5, <2>1, <2>2, <3>2, <4>2 DEF OwnTree
    <3> QED
      BY <3>1, <3>2
  <2> QED
    BY <1>1, <1>2, <1>3, <2>3, <2>4 DEF TypeOK
<1> QED
  BY <1>1, <1>4, <1>5 DEF ListFiles, PrepareDirs

LEMMA StepOwn == OwnInv /\ [Next]_vars => OwnInv'
<1> SUFFICES ASSUME OwnInv, [Next]_vars PROVE OwnInv'
  OBVIOUS
<1> USE DEF OwnInv
<1>0. ASSUME UNCHANGED <<ppd, ext, work, obj, tree, since, listed>>, todo' \subseteq Node, running' \subseteq Node
      PROVE  OwnInv'
  BY <1>0 DEF TypeOK, OwnTree, OwnSince, ListsOwnFiles
<1>1. ASSUME NEW p \in Package, Edit(p) PROVE OwnInv'
  BY <1>1 DEF Edit, TypeOK, Version, OwnTree, OwnSince, ListsOwnFiles
<1>2. ASSUME NEW cmd \in Command, NEW p \in Tree, NEW jobs \in 1 .. MaxJobs, Run(cmd, p, jobs) PROVE OwnInv'
  BY <1>0, <1>2 DEF Run, files, TypeOK
<1>3. CASE ReadStamps
  BY <1>0, <1>3 DEF ReadStamps, files, user, TypeOK, Outdated, Goal
<1>4. CASE RemoveStamp
  BY <1>0, <1>4 DEF RemoveStamp, files, user, TypeOK
<1>5. CASE RemoveTree
  <2> DEFINE none == [d \in Dir |-> [q \in Package |-> Absent]]
  <2>1. none \in Files
    BY DEF Files, Version
  <2>2. tree' = [tree EXCEPT ![make.pkg] = none] /\ UNCHANGED <<ppd, ext, work, obj, since, listed, todo, running>>
    BY <1>5 DEF RemoveTree, user
  <2> HIDE DEF none
  <2>3. TypeOK'
    BY <2>1, <2>2 DEF TypeOK
  <2>4. OwnTree'
    <3>1. \A p, q \in Package : \A d \in Dir : tree'[p][d][q] \in {tree[p][d][q], none[d][q]}
      BY <2>2 DEF TypeOK, Tree
    <3>2. \A q \in Package : \A d \in Dir : none[d][q] = Absent
      BY DEF none
    <3> QED
      BY <2>2, <3>1, <3>2 DEF OwnTree
  <2> QED
    BY <2>2, <2>3, <2>4 DEF OwnSince, ListsOwnFiles
<1>6. CASE RemoveBuildDir
  <2>1. TypeOK'
    BY <1>6 DEF RemoveBuildDir, user, TypeOK, Version
  <2>2. OwnTree' /\ OwnSince' /\ ListsOwnFiles'
    BY <1>6 DEF RemoveBuildDir, user, TypeOK, OwnTree, OwnSince, ListsOwnFiles
  <2> QED
    BY <2>1, <2>2
<1>7. CASE Recipe
  <2>1. PICK n \in todo : Start(n[1], n[2]) \/ PrepareFails(n[1], n[2]) \/ Finish(n[1], n[2]) \/ Fail(n[1], n[2])
    BY <1>7 DEF Recipe
  <2>2. n \in Node /\ n[1] \in Package /\ n = <<n[1], n[2]>>
    BY DEF TypeOK, Node
  <2>3. CASE Start(n[1], n[2])
    BY <2>2, <2>3, StartOwn
  <2>4. CASE PrepareFails(n[1], n[2])
    BY <1>0, <2>4 DEF PrepareFails, files, user, TypeOK
  <2>5. CASE Finish(n[1], n[2])
    BY <2>5, EffectsOwn DEF Finish, user
  <2>6. CASE Fail(n[1], n[2])
    <3>1. PICK D : Effects(D)
      BY <2>6 DEF Fail
    <3> QED
      BY <2>6, <3>1, EffectsOwn DEF Fail, user
  <2> QED
    BY <2>1, <2>3, <2>4, <2>5, <2>6
<1>8. CASE Finalize
  <2>1. UNCHANGED <<ppd, ext, work, obj, since, listed, todo, running>>
    BY <1>8 DEF Finalize, user
  <2>2. CASE UNCHANGED tree
    BY <1>0, <2>1, <2>2 DEF TypeOK
  <2>3. CASE tree' = [tree EXCEPT ![Global] = Rsync(Package, Global)]
    <3>1. TypeOK'
      BY <2>1, <2>3, RsyncType DEF TypeOK, Tree
    <3>2. \A p \in Package : tree'[p] = tree[p]
      BY <2>3, GlobalAssumption DEF TypeOK, Tree
    <3> QED
      BY <2>1, <3>1, <3>2 DEF OwnTree, OwnSince, ListsOwnFiles
  <2> QED
    BY <1>8, <2>2, <2>3 DEF Finalize
<1>9. CASE Stop
  BY <1>0, <1>9 DEF Stop, files, user, TypeOK
<1>10. CASE Interrupt
  <2>1. PICK D : Effects(D)
    BY <1>10 DEF Interrupt
  <2> QED
    BY <1>10, <2>1, EffectsOwn DEF Interrupt, user
<1>11. CASE UNCHANGED vars
  BY <1>0, <1>11 DEF vars, TypeOK
<1> QED
  BY <1>1, <1>2, <1>3, <1>4, <1>5, <1>6, <1>7, <1>8, <1>9, <1>10, <1>11 DEF Next, Make

LEMMA Own == Spec => []OwnInv
BY InitOwn, StepOwn, PTL DEF Spec

(* With per-package directories a package's list of files names its own    *)
(* files only, whatever runs beside it (ListsOwnFiles).                    *)
THEOREM ListsAreOwn == Spec => []ListsOwnFiles
<1>1. OwnInv => ListsOwnFiles
  BY DEF OwnInv
<1> QED
  BY <1>1, Own, PTL

(* The per-package directory of a package never has a file of a package    *)
(* that it does not depend on (the second half of TreeIsClosure, which     *)
(* needs none of its exceptions).                                          *)
THEOREM TreesAreIsolated == Spec => []OwnTree
<1>1. OwnInv => OwnTree
  BY DEF OwnInv
<1> QED
  BY <1>1, Own, PTL

-----------------------------------------------------------------------------
(* What make has still to do.                                              *)

Under == make.phase \in {"run", "stop"}

MakeOK ==
    /\ make \in [cmd : Command \cup {"none"}, pkg : Tree, jobs : Nat,
                 phase : {"ok", "failed", "read", "run", "stop"}]
    /\ make.cmd = "none" => make.phase = "failed"
    /\ make.cmd = "dirclean" => ~Under
    /\ make.cmd \notin {"all", "none"} => make.pkg \in Package

(* Removals are left of a -dirclean or a helper target only.               *)
RmsOK ==
    /\ ~Idle /\ make.cmd = "dirclean" =>
        rms = <<"build">> \/ (ppd /\ rms = <<"per-package", "build">>)
    /\ ~Idle /\ make.cmd \in Helper => rms \in Seq(Step)
    /\ Idle \/ make.cmd \in {"all", "pkg", "none"} => rms = <<>>
    /\ Under /\ make.jobs = 1 => rms = <<>>

TodoOK ==
    /\ running \subseteq todo
    /\ todo \subseteq Goal
    /\ ~Under => todo = {}

(* Whatever comes after a stamp that is to be made is to be made.          *)
UpClosed ==
    \A p \in Package : \A t \in Steps[p] : \A s \in Before[t] \ {"rsynced"} :
        <<p, s>> \in todo => <<p, t>> \in todo

(* Nothing that a running recipe waits for is to be made.                  *)
Waits == \A n \in running : Reach[n[1]][n[2]] \cap todo = {}

StampsOK == stamps \subseteq Node /\ old \subseteq stamps

(* A stamp of the goal that is not to be made is there and up to date,     *)
(* unless a helper target removes the package's stamps.                    *)
UpToDate == Under =>
    \A n \in Goal \ todo : n[1] # make.pkg \/ make.cmd \notin Helper => n \in stamps \ old

OrderInv == MakeOK /\ RmsOK /\ TodoOK /\ UpClosed /\ Waits /\ StampsOK /\ UpToDate

LEMMA InitOrder == Init => OrderInv
BY DEF Init, NoRun, Under, MakeOK, RmsOK, Idle, TodoOK, UpClosed, Waits, StampsOK, UpToDate, OrderInv,
       Tree, Helper, Command

LEMMA RemovalsKinds ==
    ASSUME NEW p
    PROVE  /\ \A cmd \in Helper : Removals(cmd, p) \in Seq(Step)
           /\ Removals("dirclean", p) = <<"build">>
                \/ (ppd /\ Removals("dirclean", p) = <<"per-package", "build">>)
           /\ \A cmd \in {"all", "pkg"} : Removals(cmd, p) = <<>>
<1>1. CleanForReinstall(p) \in Seq(Step)
  BY DEF CleanForReinstall, Step, Kind
<1>2. CleanForRebuild(p) \in Seq(Step)
  BY <1>1 DEF CleanForRebuild, Step
<1>3. CleanForReconfigure(p) \in Seq(Step)
  BY <1>2 DEF CleanForReconfigure, Step
<1>4. Removals("reinstall", p) \in Seq(Step)
  BY <1>1 DEF Removals
<1>5. Removals("rebuild", p) \in Seq(Step)
  BY <1>2 DEF Removals
<1>6. Removals("reconfigure", p) \in Seq(Step)
  BY <1>3 DEF Removals
<1>7. Removals("dirclean", p) = <<"build">> \/ (ppd /\ Removals("dirclean", p) = <<"per-package", "build">>)
  BY DEF Removals
<1>8. \A cmd \in {"all", "pkg"} : Removals(cmd, p) = <<>>
  BY DEF Removals
<1> QED
  BY <1>4, <1>5, <1>6, <1>7, <1>8 DEF Helper

LEMMA OrderKept ==
    ASSUME OrderInv, UNCHANGED <<ppd, stamps, old, make, rms, todo, running>>
    PROVE  OrderInv'
BY DEF OrderInv, MakeOK, RmsOK, TodoOK, UpClosed, Waits, StampsOK, UpToDate, Under, Idle, Goal

(* A run of make ends.                                                     *)
LEMMA OrderEnds ==
    ASSUME OrderInv, rms' = <<>>, todo' = {}, running' = {}, StampsOK', UNCHANGED ppd,
           make'.phase \in {"ok", "failed"}, MakeOK'
    PROVE  OrderInv'
BY DEF OrderInv, RmsOK, TodoOK, UpClosed, Waits, UpToDate, Under, Idle

(* An error: make starts nothing more.                                     *)
LEMMA OrderStops ==
    ASSUME OrderInv, UNCHANGED <<ppd, stamps, old, rms, todo>>, running' \subseteq running,
           Under, make' = [make EXCEPT !.phase = "stop"]
    PROVE  OrderInv'
<1> USE DEF OrderInv
<1>1. make'.phase = "stop" /\ make'.cmd = make.cmd /\ make'.pkg = make.pkg /\ make'.jobs = make.jobs
  BY DEF MakeOK
<1>2. MakeOK'
  BY <1>1 DEF MakeOK, Under
<1>3. RmsOK'
  BY <1>1 DEF RmsOK, MakeOK, Under, Idle
<1>4. TodoOK' /\ UpClosed' /\ Waits' /\ StampsOK'
  BY <1>1 DEF TodoOK, UpClosed, Waits, StampsOK, Under, Goal
<1>5. UpToDate'
  BY <1>1 DEF UpToDate, Under, Goal
<1> QED
  BY <1>2, <1>3, <1>4, <1>5

LEMMA RunOrder ==
    ASSUME OrderInv, NEW cmd \in Command, NEW p \in Tree, NEW jobs \in 1 .. MaxJobs, Run(cmd, p, jobs)
    PROVE  OrderInv'
<1> USE DEF OrderInv
<1>1. make' = [cmd |-> cmd, pkg |-> p, jobs |-> jobs, phase |-> "read"] /\ rms' = Removals(cmd, p)
  BY DEF Run
<1>2. UNCHANGED <<ppd, stamps, old, todo, running>> /\ todo = {} /\ running = {}
  BY DEF Run, TodoOK, Idle, Under
<1>3. MakeOK'
  <2>1. jobs \in Nat
    BY BuildAssumption
  <2>2. cmd # "all" => p \in Package
    BY DEF Run, Tree
  <2> QED
    BY <1>1, <2>1, <2>2 DEF MakeOK, Under, Command, Helper
<1>4. RmsOK'
  <2>1. CASE cmd \in Helper
    BY <1>1, <2>1, RemovalsKinds DEF RmsOK, Idle, Under, Helper
  <2>2. CASE cmd = "dirclean"
    BY <1>1, <1>2, <2>2, RemovalsKinds DEF RmsOK, Idle, Under, Helper
  <2>3. CASE cmd \in {"all", "pkg"}
    BY <1>1, <2>3, RemovalsKinds DEF RmsOK, Idle, Under, Helper
  <2> QED
    BY <2>1, <2>2, <2>3 DEF Command
<1>5. TodoOK' /\ UpClosed' /\ Waits' /\ StampsOK' /\ UpToDate'
  BY <1>1, <1>2 DEF TodoOK, UpClosed, Waits, StampsOK, UpToDate, Under
<1> QED
  BY <1>3, <1>4, <1>5

LEMMA ReadOrder ==
    ASSUME OrderInv, ReadStamps
    PROVE  OrderInv'
<1> USE DEF OrderInv
<1>1. /\ make.phase = "read" /\ make.cmd # "dirclean"
      /\ make'.phase = "run" /\ make'.cmd = make.cmd /\ make'.pkg = make.pkg /\ make'.jobs = make.jobs
      /\ make' \in [cmd : Command \cup {"none"}, pkg : Tree, jobs : Nat,
                    phase : {"ok", "failed", "read", "run", "stop"}]
      /\ todo' = Outdated /\ UNCHANGED <<ppd, stamps, old, rms, running>>
      /\ make.jobs = 1 => rms = <<>>
  BY DEF ReadStamps, MakeOK, user
<1>2. Goal' = Goal
  BY <1>1 DEF Goal
<1>3. running = {} /\ MakeOK'
  BY <1>1 DEF TodoOK, Under, MakeOK
<1>4. RmsOK'
  BY <1>1 DEF RmsOK, Idle, Under, MakeOK
<1>5. TodoOK' /\ Waits' /\ StampsOK'
  BY <1>1, <1>2, <1>3 DEF TodoOK, Waits, StampsOK, Under, Outdated
<1>6. UpToDate'
  <2> SUFFICES ASSUME NEW n \in Goal, n \notin Outdated PROVE n \in stamps \ old
    BY <1>1, <1>2 DEF UpToDate
  <2>1. n = <<n[1], n[2]>> /\ n \in Node
    BY DEF Goal, Node
  <2> QED
    BY <2>1 DEF Outdated
<1>7. UpClosed'
  <2> SUFFICES ASSUME NEW p \in Package, NEW t \in Steps[p], NEW s \in Before[t] \ {"rsynced"},
                      <<p, s>> \in Outdated
               PROVE  <<p, t>> \in Outdated
    BY <1>1 DEF UpClosed
  <2>1. t \in Step
    BY PackageAssumption DEF Steps, Step
  <2>2. <<p, t>> \in Goal
    BY <2>1 DEF Outdated, Goal, Node
  <2>3. PICK r \in (Before[s] \ {"rsynced"}) \cup {s} :
            /\ <<p, r>> \in Node
            /\ <<p, r>> \notin stamps \/ <<p, r>> \in old
    BY DEF Outdated
  <2>4. r \in Before[t] \ {"rsynced"}
    BY <2>1, <2>3, BeforeIsTransitive
  <2> QED
    BY <2>2, <2>3, <2>4 DEF Outdated
<1> QED
  BY <1>3, <1>4, <1>5, <1>6, <1>7

LEMMA RemoveStampOrder ==
    ASSUME OrderInv, RemoveStamp
    PROVE  OrderInv'
<1> USE DEF OrderInv
<1>1. UNCHANGED <<ppd, make, todo, running>> /\ rms # <<>> /\ rms' = Tail(rms) /\ ~Idle
  BY DEF RemoveStamp, user, Idle
<1>2. make.cmd \in Helper /\ rms \in Seq(Step)
  <2>1. make.cmd # "dirclean"
    <3>1. "build" \notin Step /\ "per-package" \notin Step
      BY DEF Step, Source, Kind
    <3> QED
      BY <1>1, <3>1 DEF RemoveStamp, RmsOK
  <2> QED
    BY <1>1, <2>1 DEF RmsOK, MakeOK, Command
<1>3. Goal' = Goal
  BY <1>1 DEF Goal
<1>4. RmsOK'
  <2>1. Tail(rms) \in Seq(Step)
    BY <1>1, <1>2
  <2> QED
    BY <1>1, <1>2, <2>1 DEF RmsOK, Idle, Under, Helper
<1>5. StampsOK'
  BY DEF StampsOK, RemoveStamp
<1>6. UpToDate'
  BY <1>1, <1>2, <1>3 DEF UpToDate, Under, RemoveStamp
<1>7. MakeOK' /\ TodoOK' /\ UpClosed' /\ Waits'
  BY <1>1, <1>3 DEF MakeOK, TodoOK, UpClosed, Waits, Under
<1> QED
  BY <1>4, <1>5, <1>6, <1>7

LEMMA StartOrder ==
    ASSUME OrderInv, NEW p, NEW s, <<p, s>> \in todo, Start(p, s)
    PROVE  OrderInv'
<1> USE DEF OrderInv
<1>1. UNCHANGED <<ppd, stamps, old, make, rms, todo>> /\ running' = running \cup {<<p, s>>}
  BY DEF Start, user
<1>2. Goal' = Goal
  BY <1>1 DEF Goal
<1>3. Waits'
  BY <1>1 DEF Waits, Start, Runnable
<1>4. TodoOK'
  BY <1>1, <1>2 DEF TodoOK, Under
<1> QED
  BY <1>1, <1>2, <1>3, <1>4 DEF MakeOK, RmsOK, UpClosed, StampsOK, UpToDate, Under, Idle

LEMMA FinishOrder ==
    ASSUME OrderInv, NEW p, NEW s, <<p, s>> \in Node, Finish(p, s)
    PROVE  OrderInv'
<1> USE DEF OrderInv
<1>1. /\ UNCHANGED <<ppd, make, rms>> /\ <<p, s>> \in running /\ <<p, s>> \in todo
      /\ todo' = todo \ {<<p, s>>} /\ running' = running \ {<<p, s>>} /\ Touch(p, s)
  BY DEF Finish, user, TodoOK
<1>2. Goal' = Goal /\ p \in Package /\ s \in Steps[p] /\ Under
  BY <1>1 DEF Goal, Node, TodoOK
<1>3. MakeOK' /\ RmsOK' /\ TodoOK' /\ Waits'
  BY <1>1, <1>2 DEF MakeOK, RmsOK, Under, Idle, TodoOK, Waits
<1>4. UpClosed'
  <2> SUFFICES ASSUME NEW q \in Package, NEW t \in Steps[q], NEW r \in Before[t] \ {"rsynced"},
                      <<q, r>> \in todo
               PROVE  <<q, t>> # <<p, s>>
    BY <1>1 DEF UpClosed
  <2>1. <<q, r>> \in Node
    BY DEF TodoOK, Goal
  <2>2. Reach[p][s] \cap todo = {}
    BY <1>1 DEF Waits
  <2>3. s \in Step
    BY DEF Node
  <2> QED
    BY <1>2, <2>1, <2>2, <2>3 DEF Reach
<1>5. StampsOK'
  BY <1>1 DEF StampsOK, Touch
<1>6. UpToDate'
  <2> SUFFICES ASSUME NEW n \in Goal, n \notin todo', n[1] # make.pkg \/ make.cmd \notin Helper
               PROVE  n \in stamps' \ old'
    BY <1>1, <1>2 DEF UpToDate
  <2>1. CASE n = <<p, s>>
    <3>1. s \notin Normal(s)
      BY DEF Normal, Kind
    <3> QED
      BY <1>1, <2>1, <3>1 DEF Touch
  <2>2. CASE n \notin todo
    <3>1. n \in stamps \ old
      BY <1>2, <2>2 DEF UpToDate
    <3>2. ~ (n[1] = p /\ s \in Normal(n[2]))
      <4> SUFFICES ASSUME n[1] = p, s \in Normal(n[2]) PROVE FALSE
        OBVIOUS
      <4>1. n = <<p, n[2]>> /\ n[2] \in Steps[p] /\ n[2] \in Step
        BY DEF Goal, Node
      <4>2. s \in Before[n[2]] /\ s # "rsynced"
        BY <4>1, BeforeHasPrerequisites DEF Prerequisites, Normal, Kind
      <4> QED
        BY <1>1, <1>2, <2>2, <4>1, <4>2 DEF UpClosed
    <3> QED
      BY <1>1, <3>1, <3>2 DEF Touch
  <2> QED
    BY <1>1, <2>1, <2>2
<1> QED
  BY <1>3, <1>4, <1>5, <1>6

LEMMA StepOrder == OrderInv /\ [Next]_vars => OrderInv'
<1> SUFFICES ASSUME OrderInv, [Next]_vars PROVE OrderInv'
  OBVIOUS
<1> USE DEF OrderInv
<1>1. ASSUME NEW p \in Package, Edit(p) PROVE OrderInv'
  BY <1>1, OrderKept DEF Edit
<1>2. ASSUME NEW cmd \in Command, NEW p \in Tree, NEW jobs \in 1 .. MaxJobs, Run(cmd, p, jobs) PROVE OrderInv'
  BY <1>2, RunOrder
<1>3. CASE ReadStamps
  BY <1>3, ReadOrder
<1>4. CASE RemoveStamp
  BY <1>4, RemoveStampOrder
<1>5. CASE RemoveTree
  <2>1. UNCHANGED <<ppd, stamps, old, make, todo, running>> /\ make.phase = "read"
        /\ Head(rms) = "per-package" /\ rms # <<>> /\ rms' = Tail(rms)
    BY <1>5 DEF RemoveTree, user
  <2>2. make.cmd = "dirclean" /\ rms' = <<"build">>
    <3>1. "per-package" \notin Step
      BY DEF Step, Source, Kind
    <3>2. make.cmd \notin Helper
      BY <2>1, <3>1 DEF RmsOK, Idle
    <3>3. make.cmd = "dirclean"
      BY <2>1, <3>2 DEF RmsOK, MakeOK, Command
    <3>4. rms = <<"per-package", "build">>
      BY <2>1, <3>3 DEF RmsOK, Idle
    <3>5. Tail(<<"per-package", "build">>) = <<"build">>
      OBVIOUS
    <3> QED
      BY <2>1, <3>3, <3>4, <3>5
  <2>3. RmsOK'
    BY <2>1, <2>2 DEF RmsOK, Idle, Under, Helper
  <2> QED
    BY <2>1, <2>3 DEF MakeOK, TodoOK, UpClosed, Waits, StampsOK, UpToDate, Under, Goal
<1>6. CASE RemoveBuildDir
  <2>1. UNCHANGED <<ppd, todo, running>> /\ make' = [make EXCEPT !.phase = "ok"] /\ make.phase = "read"
        /\ Head(rms) = "build" /\ rms # <<>> /\ rms' = Tail(rms)
    BY <1>6 DEF RemoveBuildDir, user
  <2>2. make.cmd = "dirclean" /\ rms' = <<>>
    <3>1. "build" \notin Step
      BY DEF Step, Source, Kind
    <3>2. make.cmd \notin Helper
      BY <2>1, <3>1 DEF RmsOK, Idle
    <3>3. make.cmd = "dirclean"
      BY <2>1, <3>2 DEF RmsOK, MakeOK, Command
    <3> QED
      BY <2>1, <3>3 DEF RmsOK, Idle
  <2>3. StampsOK'
    BY <1>6 DEF StampsOK, RemoveBuildDir
  <2>4. MakeOK' /\ make'.phase = "ok"
    BY <2>1, <2>2 DEF MakeOK, Under
  <2>5. todo' = {} /\ running' = {}
    BY <2>1 DEF TodoOK, Under
  <2> QED
    BY <2>1, <2>2, <2>3, <2>4, <2>5, OrderEnds
<1>7. CASE Recipe
  <2>1. PICK n \in todo : Start(n[1], n[2]) \/ PrepareFails(n[1], n[2]) \/ Finish(n[1], n[2]) \/ Fail(n[1], n[2])
    BY <1>7 DEF Recipe
  <2>2. n \in Node /\ n = <<n[1], n[2]>> /\ Under
    BY DEF TodoOK, Goal, Node
  <2>3. CASE Start(n[1], n[2])
    BY <2>2, <2>3, StartOrder
  <2>4. CASE PrepareFails(n[1], n[2])
    BY <2>2, <2>4, OrderStops DEF PrepareFails, user
  <2>5. CASE Finish(n[1], n[2])
    BY <2>2, <2>5, FinishOrder
  <2>6. CASE Fail(n[1], n[2])
    BY <2>2, <2>6, OrderStops DEF Fail, user
  <2> QED
    BY <2>1, <2>3, <2>4, <2>5, <2>6
<1>8. CASE Finalize
  <2>1. UNCHANGED <<ppd, stamps, old, todo, running>> /\ todo = {} /\ running = {} /\ rms' = <<>> /\ Under
    BY <1>8 DEF Finalize, user, TodoOK, Under
  <2>2. make' = NoRun \/ make' = [make EXCEPT !.phase = "ok"]
    BY <1>8 DEF Finalize
  <2>3. MakeOK' /\ make'.phase \in {"ok", "failed"}
    BY <2>1, <2>2 DEF MakeOK, NoRun, Under, Tree, Helper, Command
  <2> QED
    BY <2>1, <2>3, OrderEnds DEF StampsOK
<1>9. CASE Stop \/ Interrupt
  <2>1. UNCHANGED <<ppd, stamps, old>> /\ rms' = <<>> /\ todo' = {} /\ running' = {} /\ make' = NoRun
    BY <1>9 DEF Stop, Interrupt, user
  <2>2. MakeOK' /\ make'.phase \in {"ok", "failed"}
    BY <2>1 DEF MakeOK, NoRun, Under, Tree, Helper, Command
  <2> QED
    BY <2>1, <2>2, OrderEnds DEF StampsOK
<1>10. CASE UNCHANGED vars
  BY <1>10, OrderKept DEF vars
<1> QED
  BY <1>1, <1>2, <1>3, <1>4, <1>5, <1>6, <1>7, <1>8, <1>9, <1>10 DEF Next, Make

LEMMA Ordered == Spec => []OrderInv
BY InitOrder, StepOrder, PTL DEF Spec

(* The step tables of a package agree with the dependencies it needs.      *)
LEMMA NeedsGrow ==
    ASSUME NEW p \in Package, NEW u \in Step, NEW t \in Before[u] \cup {u}
    PROVE  Needs[p][t] \subseteq Needs[p][u]
<1>1. t \in Step
  BY BeforeHasPrerequisites
<1>2. Before[t] \cup {t} \subseteq Before[u] \cup {u}
  BY <1>1, BeforeIsTransitive
<1> QED
  BY <1>1, <1>2 DEF Needs

LEMMA NeedsInClosure ==
    ASSUME NEW p \in Package, NEW s \in Step
    PROVE  Needs[p][s] \subseteq Closure[p]
<1>1. \A t \in Preparing \cap Steps[p] : Deps[p][t] \subseteq Closure[p]
  BY DirectInClosure DEF DirectDeps
<1>2. \A q \in Closure[p] : Closure[q] \subseteq Closure[p]
  BY ClosureIsTransitive
<1> QED
  BY <1>1, <1>2 DEF Needs

LEMMA QuietFollows == OrderInv => DependenciesQuiet
<1> SUFFICES ASSUME OrderInv, NEW n \in running, n[2] \notin Source \cup {"rsynced"},
                    NEW q \in Needs[n[1]]["configured"]
             PROVE  /\ <<q, "installed">> \in stamps \ old
                    /\ \A m \in running : m[1] # q
  BY DEF DependenciesQuiet
<1> USE DEF OrderInv
<1> DEFINE p == n[1]
           s == n[2]
<1>1. n \in todo /\ n \in Goal /\ p \in Package /\ s \in Step /\ Under
  BY DEF TodoOK, Goal, Node
<1>2. "configured" \in Before[s] \cup {s} /\ "configured" \in Step
  BY <1>1, BeforeTable DEF Step, Source, Kind
<1>3. q \in Needs[p][s] /\ q \in Closure[p] /\ q \in Package
  <2>1. Needs[p]["configured"] \subseteq Needs[p][s] /\ Needs[p][s] \subseteq Closure[p]
    BY <1>1, <1>2, NeedsGrow, NeedsInClosure
  <2> QED
    BY <1>1, <2>1 DEF Closure
<1>4. \A m \in Node : m[1] = q => m \notin todo
  BY <1>1, <1>3 DEF Waits, Reach
<1>5. <<q, "installed">> \in Goal
  <2>1. <<q, "installed">> \in Node
    BY <1>3 DEF Node, Steps, Step
  <2>2. make.cmd # "all" => q \in {make.pkg} \cup Closure[make.pkg]
    <3> SUFFICES ASSUME make.cmd # "all" PROVE q \in Closure[make.pkg]
      OBVIOUS
    <3>1. make.pkg \in Package /\ p \in {make.pkg} \cup Closure[make.pkg]
      BY <1>1 DEF Goal, MakeOK, Under
    <3> QED
      BY <1>3, <3>1, ClosureIsTransitive
  <2> QED
    BY <2>1, <2>2 DEF Goal
<1>6. q # make.pkg \/ make.cmd \notin Helper
  <2> SUFFICES ASSUME make.cmd \in Helper PROVE q # make.pkg
    OBVIOUS
  <2>1. make.cmd # "all" /\ make.pkg \in Package
    BY <1>1 DEF Helper, MakeOK
  <2>2. p \in {make.pkg} \cup Closure[make.pkg]
    BY <1>1, <2>1 DEF Goal
  <2>3. q \in Closure[make.pkg]
    BY <1>3, <2>1, <2>2, ClosureIsTransitive
  <2> QED
    BY <2>1, <2>3, Acyclic
<1>7. <<q, "installed">> \in stamps \ old
  BY <1>1, <1>4, <1>5, <1>6 DEF UpToDate, Goal
<1>8. \A m \in running : m \in Node /\ m \in todo
  BY DEF TodoOK, Goal
<1> QED
  BY <1>4, <1>7, <1>8

THEOREM DependenciesAreQuiet == Spec => []DependenciesQuiet
BY Ordered, QuietFollows, PTL

-----------------------------------------------------------------------------
(* What has been made is there.                                            *)

(* The stamps, and what make has looked at or made in this run.            *)
Made == stamps \cup (IF Under THEN Goal \ todo ELSE {})

(* The per-package directory of p may have been removed, its stamps not.   *)
Cleaning(p) == ppd /\ make.cmd = "dirclean" /\ ~Idle /\ make.pkg = p

SourcesOK ==
    /\ \A p \in Override : ext[p] # Absent
    /\ \A p \in Package : <<p, "extracted">> \in Made \/ <<p, "rsynced">> \in Made => work[p] # Absent
    /\ \A p \in Package : <<p, "built">> \in Made => obj[p] # Absent

(* The files of a package that has been installed are in its tree.         *)
InstalledOK == ~torn =>
    \A p \in Package : ~Cleaning(p) => \A d \in Dir : \A s \in Installing(p, d) :
        <<p, s>> \in Made => tree[TreeOf(p)][d][p] # Absent

(* The files of what a preparing step needs have been copied.              *)
CopiedOK == ppd /\ ~torn =>
    \A p \in Package : ~Cleaning(p) => \A s \in Preparing :
        <<p, s>> \in Made \cup running =>
            \A q \in Needs[p][s] : \A d \in Dir :
                Installing(q, d) # {} => tree[p][d][q] # Absent

BuiltInv == SourcesOK /\ InstalledOK /\ CopiedOK

LEMMA InitBuilt == Init => BuiltInv
<1> SUFFICES ASSUME Init PROVE BuiltInv
  OBVIOUS
<1>1. Made = {} /\ running = {}
  BY DEF Init, NoRun, Made, Under
<1>2. \A p \in Override : ext[p] # Absent
  BY PackageAssumption DEF Init, Absent, Pristine
<1> QED
  BY <1>1, <1>2 DEF BuiltInv, SourcesOK, InstalledOK, CopiedOK

(* What make has waited for is made.                                       *)
LEMMA ReachedIsMade ==
    ASSUME OrderInv, NEW p, NEW s, <<p, s>> \in todo, Reach[p][s] \cap todo = {},
           NEW m \in Reach[p][s]
    PROVE  m \in Made /\ m \notin todo
<1> USE DEF OrderInv
<1>1. <<p, s>> \in Goal /\ p \in Package /\ s \in Step /\ Under
  BY DEF TodoOK, Goal, Node
<1>2. m \in Node /\ m[1] \in {p} \cup Closure[p]
  BY <1>1, NeedsInClosure DEF Reach
<1>3. m \in Goal
  <2>1. CASE make.cmd = "all"
    BY <1>2, <2>1 DEF Goal
  <2>2. CASE make.cmd # "all"
    <3>1. make.pkg \in Package /\ p \in {make.pkg} \cup Closure[make.pkg]
      BY <1>1, <2>2 DEF Goal, MakeOK, Under
    <3> QED
      BY <1>2, <2>2, <3>1, ClosureIsTransitive DEF Goal
  <2> QED
    BY <2>1, <2>2
<1> QED
  BY <1>1, <1>3 DEF Made

LEMMA BeforeIsMade ==
    ASSUME OrderInv, NEW p, NEW s, <<p, s>> \in running, NEW t \in Before[s], <<p, t>> \in Node
    PROVE  <<p, t>> \in Made
<1>1. <<p, s>> \in todo /\ Reach[p][s] \cap todo = {}
  BY DEF OrderInv, TodoOK, Waits
<1>2. p \in Package /\ s \in Step
  BY <1>1 DEF OrderInv, TodoOK, Goal, Node
<1>3. <<p, t>> \in Reach[p][s]
  BY <1>2 DEF Reach
<1> QED
  BY <1>1, <1>3, ReachedIsMade

(* There is something to build from, and something to install.             *)
LEMMA RunningHasInput ==
    ASSUME OrderInv, SourcesOK, NEW p, NEW s, <<p, s>> \in running
    PROVE  /\ p \in Package /\ s \in Steps[p]
           /\ s = "rsynced" => ext[p] # Absent
           /\ s = "built" => work[p] # Absent
           /\ s \in Kind => obj[p] # Absent
<1>1. p \in Package /\ s \in Steps[p] /\ s \in Step
  BY DEF OrderInv, TodoOK, Goal, Node
<1>2. ASSUME s = "rsynced" PROVE ext[p] # Absent
  <2>1. p \in Override
    BY <1>1, <1>2, PackageAssumption DEF Steps, Source, Kind
  <2> QED
    BY <2>1 DEF SourcesOK
<1>3. ASSUME s = "built" PROVE work[p] # Absent
  <2>1. \E t \in {"extracted", "rsynced"} : <<p, t>> \in Node
    BY <1>1 DEF Node, Steps, Step, Source
  <2>2. \E t \in {"extracted", "rsynced"} : <<p, t>> \in Made
    BY <1>3, <2>1, BeforeIsMade, BeforeTable DEF Source
  <2> QED
    BY <1>1, <2>2 DEF SourcesOK
<1>4. ASSUME s \in Kind PROVE obj[p] # Absent
  <2>1. <<p, "built">> \in Node
    BY <1>1 DEF Node, Steps, Step
  <2>2. "built" \in Before[s]
    BY <1>4, BeforeTable DEF Kind
  <2> QED
    BY <1>1, <2>1, <2>2, BeforeIsMade DEF SourcesOK
<1> QED
  BY <1>1, <1>2, <1>3, <1>4

LEMMA EffectsSources ==
    ASSUME OwnInv, OrderInv, SourcesOK, NEW D \in SUBSET running, Effects(D), UNCHANGED ext,
           Made' \subseteq Made \cup D
    PROVE  SourcesOK'
<1>1. Pristine # Absent
  BY DEF Pristine, Absent
<1>2. ASSUME NEW p \in Package
      PROVE  /\ work'[p] = IF <<p, "extracted">> \in D THEN Pristine
                           ELSE IF <<p, "rsynced">> \in D THEN ext[p] ELSE work[p]
             /\ obj'[p] = IF <<p, "built">> \in D THEN work[p] ELSE obj[p]
  BY DEF Effects
<1>3. ASSUME NEW p \in Package
      PROVE  /\ <<p, "rsynced">> \in D => ext[p] # Absent
             /\ <<p, "built">> \in D => work[p] # Absent
  BY RunningHasInput
<1>4. ASSUME NEW p \in Package, <<p, "extracted">> \in Made' \/ <<p, "rsynced">> \in Made'
      PROVE  work'[p] # Absent
  BY <1>1, <1>2, <1>3, <1>4 DEF SourcesOK
<1>5. ASSUME NEW p \in Package, <<p, "built">> \in Made'
      PROVE  obj'[p] # Absent
  BY <1>2, <1>3, <1>5 DEF SourcesOK
<1> QED
  BY <1>4, <1>5 DEF SourcesOK

LEMMA EffectsFiles ==
    ASSUME OrderInv, SourcesOK, NEW D \in SUBSET running, Effects(D), UNCHANGED ppd
    PROVE  /\ \A t \in Tree, d \in Dir, q \in Package : tree[t][d][q] # Absent => tree'[t][d][q] # Absent
           /\ \A p \in Package, d \in Dir : \A s \in Installing(p, d) :
                <<p, s>> \in D => tree'[TreeOf(p)][d][p] # Absent
<1>1. \A p \in Package : \A s \in Kind : <<p, s>> \in D => obj[p] # Absent
  BY RunningHasInput
<1>2. CASE \A n \in D : n[2] \notin Kind
  BY <1>2 DEF Effects, Installing, Kind
<1>3. CASE ~ \A n \in D : n[2] \notin Kind
  <2>1. tree' = [t \in Tree |-> [d \in Dir |-> [p \in Package |->
                        IF t = TreeOf(p) /\ \E s \in Installing(p, d) : <<p, s>> \in D
                        THEN obj[p] ELSE tree[t][d][p]]]]
    BY <1>3 DEF Effects
  <2>2. \A p \in Package, d \in Dir : Installing(p, d) \subseteq Kind /\ TreeOf(p) \in Tree
    BY DEF Installing, Kind, TreeOf, Tree
  <2> QED
    BY <1>1, <2>1, <2>2
<1> QED
  BY <1>2, <1>3

LEMMA InstalledKept ==
    ASSUME InstalledOK, UNCHANGED ppd,
           \A p \in Package : ~torn' /\ ~Cleaning(p)' => ~torn /\ ~Cleaning(p),
           \A t \in Tree, d \in Dir, q \in Package : tree[t][d][q] # Absent => tree'[t][d][q] # Absent,
           NEW D \in SUBSET running, Made' \subseteq Made \cup D,
           \A p \in Package, d \in Dir : \A s \in Installing(p, d) :
                <<p, s>> \in D => tree'[TreeOf(p)][d][p] # Absent
    PROVE  InstalledOK'
<1> SUFFICES ASSUME ~torn', NEW p \in Package, ~Cleaning(p)', NEW d \in Dir, NEW s \in Installing(p, d), <<p, s>> \in Made'
             PROVE  tree'[TreeOf(p)][d][p] # Absent
  BY DEF InstalledOK, TreeOf
<1>1. TreeOf(p) \in Tree
  BY DEF TreeOf, Tree
<1>2. CASE <<p, s>> \in Made
  BY <1>1, <1>2 DEF InstalledOK
<1> QED
  BY <1>2

LEMMA CopiedKept ==
    ASSUME CopiedOK, UNCHANGED ppd,
           \A p \in Package : ~torn' /\ ~Cleaning(p)' => ~torn /\ ~Cleaning(p),
           \A t \in Tree, d \in Dir, q \in Package : tree[t][d][q] # Absent => tree'[t][d][q] # Absent,
           Made' \cup running' \subseteq Made \cup running
    PROVE  CopiedOK'
<1>1. \A p \in Package, s \in Preparing : Needs[p][s] \subseteq Package
  BY NeedsInClosure DEF Closure, Preparing, Step, Source
<1> QED
  BY <1>1 DEF CopiedOK, Tree

(* A step that makes nothing and loses no files.                           *)
LEMMA BuiltKept ==
    ASSUME BuiltInv, UNCHANGED <<ppd, ext>>,
           \A p \in Package : work[p] # Absent => work'[p] # Absent,
           \A p \in Package : obj[p] # Absent => obj'[p] # Absent,
           \A p \in Package : ~torn' /\ ~Cleaning(p)' => ~torn /\ ~Cleaning(p),
           \A t \in Tree, d \in Dir, q \in Package : tree[t][d][q] # Absent => tree'[t][d][q] # Absent,
           Made' \subseteq Made, running' \subseteq running
    PROVE  BuiltInv'
<1>1. SourcesOK'
  BY DEF BuiltInv, SourcesOK
<1>2. InstalledOK'
  <2>1. {} \in SUBSET running /\ Made' \subseteq Made \cup {}
    OBVIOUS
  <2> QED
    BY <2>1, InstalledKept DEF BuiltInv
<1>3. CopiedOK'
  BY CopiedKept DEF BuiltInv
<1> QED
  BY <1>1, <1>2, <1>3 DEF BuiltInv

(* A package's configure step needs everything that it depends on.         *)
LEMMA ConfigureNeedsAll ==
    ASSUME NEW q \in Package
    PROVE  Needs[q]["configured"] = Closure[q]
<1> DEFINE C == DirectDeps(q) \cup UNION {Closure[r] : r \in DirectDeps(q)}
<1>1. DirectDeps(q) \subseteq Package
  BY PackageAssumption DEF DirectDeps, Preparing, Steps
<1>2. Closure[q] \subseteq C
  <2>1. C \in SUBSET Package /\ DirectDeps(q) \subseteq C
    BY <1>1 DEF Closure
  <2>2. \A r \in C : DirectDeps(r) \subseteq C
    <3>1. \A x \in Package : DirectDeps(x) \subseteq Closure[x]
      BY DirectInClosure
    <3>2. \A x \in Package : \A r \in Closure[x] : DirectDeps(r) \subseteq Closure[x]
      <4>1. \A x \in Package : \A r \in Closure[x] : r \in Package /\ Closure[r] \subseteq Closure[x]
        BY ClosureIsTransitive DEF Closure
      <4> QED
        BY <3>1, <4>1
    <3> QED
      BY <1>1, <3>1, <3>2
  <2> HIDE DEF C
  <2> QED
    BY <2>1, <2>2 DEF Closure
<1>3. Preparing \subseteq Before["configured"] \cup {"configured"}
  BY BeforeTable DEF Preparing, Source
<1>4. "configured" \in Step
  BY DEF Step
<1>5. C = Needs[q]["configured"]
  BY <1>3, <1>4 DEF Needs, DirectDeps
<1> QED
  BY <1>2, <1>4, <1>5, NeedsInClosure

(* What the trees of the dependencies of a preparing step hold: their own  *)
(* files and those of all that they depend on.                             *)
LEMMA DependenciesHold ==
    ASSUME OwnInv, OrderInv, BuiltInv, ppd, ~torn, NEW p \in Package, NEW s \in Preparing,
           <<p, s>> \in todo, Reach[p][s] \cap todo = {}, make.phase = "run",
           NEW q \in Deps[p][s], NEW x \in Closure[q] \cup {q}, NEW d \in Dir, Installing(x, d) # {}
    PROVE  tree[q][d][x] # Absent
<1>1. s \in Step /\ s \in Steps[p]
  BY DEF Preparing, Step, Source, OrderInv, TodoOK, Goal, Node
<1>2. q \in Needs[p][s] /\ q \in Package
  BY <1>1, PackageAssumption DEF Needs
<1>3. ~Cleaning(q)
  BY DEF Cleaning, OrderInv, MakeOK, Under
<1>4. \A m \in Node : m[1] = q => m \in Made
  <2>1. \A m \in Node : m[1] = q => m \in Reach[p][s]
    BY <1>1, <1>2 DEF Reach
  <2> QED
    BY <2>1, ReachedIsMade
<1>5. CASE x = q
  <2>1. PICK k \in Installing(q, d) : TRUE
    BY <1>5
  <2>2. <<q, k>> \in Node
    BY <1>2, <2>1, PackageAssumption DEF Installing, Node, Steps, Step
  <2>3. <<q, k>> \in Made
    BY <1>4, <2>2
  <2> QED
    BY <1>2, <1>3, <1>5, <2>3 DEF BuiltInv, InstalledOK, TreeOf
<1>6. CASE x \in Closure[q]
  <2>1. <<q, "configured">> \in Node
    BY <1>2 DEF Node, Steps, Step
  <2>2. <<q, "configured">> \in Made
    BY <1>4, <2>1
  <2>3. x \in Needs[q]["configured"] /\ "configured" \in Preparing
    BY <1>2, <1>6, ConfigureNeedsAll DEF Preparing
  <2> QED
    BY <1>2, <1>3, <2>2, <2>3 DEF BuiltInv, CopiedOK
<1> QED
  BY <1>5, <1>6

LEMMA StartBuilt ==
    ASSUME OwnInv, OrderInv, BuiltInv, NEW p \in Package, NEW s, <<p, s>> \in todo, Start(p, s)
    PROVE  BuiltInv'
<1>1. /\ UNCHANGED <<ppd, ext, stamps, old, work, obj, make, rms, todo, torn>>
      /\ running' = running \cup {<<p, s>>} /\ ListFiles(p, s)
      /\ make.phase = "run" /\ Reach[p][s] \cap todo = {}
  BY DEF Start, user, Runnable
<1>2. Made' = Made /\ \A q \in Package : Cleaning(q)' = Cleaning(q)
  BY <1>1 DEF Made, Under, Goal, Cleaning, Idle
<1>3. <<p, s>> \in Node /\ s \in Step /\ s \in Steps[p]
  BY DEF OrderInv, TodoOK, Goal, Node
<1>4. /\ s \in Preparing => Deps[p][s] \in SUBSET Package
      /\ \/ UNCHANGED tree
         \/ s \in Preparing /\ tree' = [tree EXCEPT ![p] = Rsync(Deps[p][s], p)]
      /\ ppd /\ s \in Preparing => tree' = [tree EXCEPT ![p] = Rsync(Deps[p][s], p)]
  BY <1>1, PackageAssumption DEF ListFiles, PrepareDirs, Preparing
<1>5. p \in Tree /\ tree \in [Tree -> Files]
  BY DEF Tree, OwnInv, TypeOK
<1>6. \A t \in Tree, d \in Dir, q \in Package : tree[t][d][q] # Absent => tree'[t][d][q] # Absent
  <2>1. CASE UNCHANGED tree
    BY <2>1
  <2>2. CASE s \in Preparing /\ tree' = [tree EXCEPT ![p] = Rsync(Deps[p][s], p)]
    <3>1. \A d \in Dir, q \in Package : tree[p][d][q] # Absent => Rsync(Deps[p][s], p)[d][q] # Absent
      BY <1>4, <1>5, <2>2, RsyncKeeps
    <3> QED
      BY <1>5, <2>2, <3>1
  <2> QED
    BY <1>4, <2>1, <2>2
<1>7. SourcesOK'
  BY <1>1, <1>2 DEF BuiltInv, SourcesOK
<1>8. InstalledOK'
  <2>1. {} \in SUBSET running /\ Made' \subseteq Made \cup {}
    BY <1>2
  <2> QED
    BY <1>1, <1>2, <1>6, <2>1, InstalledKept DEF BuiltInv
<1>9. CopiedOK'
  <2> SUFFICES ASSUME ppd, ~torn, NEW r \in Package, ~Cleaning(r), NEW t \in Preparing,
                      <<r, t>> \in Made \cup running \cup {<<p, s>>},
                      NEW x \in Needs[r][t], NEW d \in Dir, Installing(x, d) # {}
               PROVE  tree'[r][d][x] # Absent
    BY <1>1, <1>2 DEF CopiedOK, Installing
  <2>1. x \in Package /\ r \in Tree /\ t \in Step
    BY NeedsInClosure DEF Closure, Preparing, Step, Source, Tree
  <2>2. CASE <<r, t>> \in Made \cup running
    <3>1. tree[r][d][x] # Absent
      BY <2>2 DEF BuiltInv, CopiedOK
    <3> QED
      BY <1>6, <2>1, <3>1
  <2>3. CASE r = p /\ t = s
    <3>1. PICK u \in ({s} \cup Before[s]) \cap Preparing \cap Steps[p] :
              \E q \in Deps[p][u] : x \in Closure[q] \cup {q}
      BY <1>3, <2>3 DEF Needs
    <3>2. PICK q \in Deps[p][u] : x \in Closure[q] \cup {q}
      BY <3>1
    <3>3. CASE u = s
      <4>1. tree[q][d][x] # Absent
        BY <1>1, <2>3, <3>2, <3>3, DependenciesHold
      <4>2. Rsync(Deps[p][s], p)[d][x] # Absent
        <5>1. Deps[p][s] \in SUBSET Package /\ q \in Deps[p][s]
          BY <1>4, <2>3, <3>2, <3>3
        <5>2. \E y \in Deps[p][s] : tree[y][d][x] # Absent
          BY <4>1, <5>1
        <5> QED
          BY <1>5, <2>1, <5>1, <5>2, RsyncKeeps
      <4> QED
        BY <1>4, <1>5, <2>3, <4>2
    <3>4. CASE u \in Before[s]
      <4>1. <<p, u>> \in Node /\ u \in Step
        <5>1. u \in Step /\ u \in Steps[p]
          BY <3>1 DEF Preparing, Step, Source
        <5> QED
          BY <5>1 DEF Node
      <4>2. <<p, u>> \in Reach[p][s]
        BY <1>3, <3>4, <4>1 DEF Reach
      <4>3. <<p, u>> \in Made
        BY <1>1, <4>2, ReachedIsMade
      <4>4. x \in Needs[p][u]
        BY <3>1, <3>2, <4>1 DEF Needs
      <4>5. tree[p][d][x] # Absent
        BY <2>3, <3>1, <4>3, <4>4 DEF BuiltInv, CopiedOK
      <4> QED
        BY <1>6, <2>1, <2>3, <4>5
    <3> QED
      BY <3>1, <3>3, <3>4
  <2> QED
    BY <2>2, <2>3
<1> QED
  BY <1>7, <1>8, <1>9 DEF BuiltInv

(* A recipe ends, with its stamp touched or not, or is interrupted.        *)
LEMMA EffectsBuilt ==
    ASSUME OwnInv, OrderInv, BuiltInv, NEW D \in SUBSET running, Effects(D), UNCHANGED <<ppd, ext>>,
           Made' \subseteq Made \cup D, running' \subseteq running,
           \A p \in Package : ~torn' /\ ~Cleaning(p)' => ~torn /\ ~Cleaning(p)
    PROVE  BuiltInv'
<1>1. SourcesOK'
  BY EffectsSources DEF BuiltInv
<1>2. InstalledOK'
  BY EffectsFiles, InstalledKept DEF BuiltInv
<1>3. CopiedOK'
  BY EffectsFiles, CopiedKept DEF BuiltInv
<1> QED
  BY <1>1, <1>2, <1>3 DEF BuiltInv

LEMMA RecipeBuilt ==
    ASSUME OwnInv, OrderInv, BuiltInv, Recipe
    PROVE  BuiltInv'
<1>1. PICK n \in todo : Start(n[1], n[2]) \/ PrepareFails(n[1], n[2]) \/ Finish(n[1], n[2]) \/ Fail(n[1], n[2])
  BY DEF Recipe
<1>2. n \in Node /\ n = <<n[1], n[2]>> /\ n[1] \in Package /\ Under /\ make.cmd # "dirclean"
  BY DEF OrderInv, MakeOK, TodoOK, Goal, Node
<1>3. CASE Start(n[1], n[2])
  BY <1>2, <1>3, StartBuilt
<1>4. CASE PrepareFails(n[1], n[2])
  <2>1. /\ UNCHANGED <<ppd, ext, stamps, work, obj, tree, todo, running, torn>>
        /\ make'.cmd = make.cmd /\ make'.pkg = make.pkg
    BY <1>4 DEF PrepareFails, user, files, OrderInv, MakeOK
  <2>2. Made' \subseteq Made /\ \A p \in Package : ~Cleaning(p)
    BY <1>2, <2>1 DEF Made, Goal, Cleaning
  <2> QED
    BY <2>1, <2>2, BuiltKept
<1>5. CASE Finish(n[1], n[2])
  <2> DEFINE D == {<<n[1], n[2]>>}
  <2>1. /\ UNCHANGED <<ppd, ext, make, torn>> /\ D \in SUBSET running /\ Effects(D)
        /\ stamps' = stamps \cup D /\ todo' = todo \ D /\ running' \subseteq running
    BY <1>5 DEF Finish, Touch, user
  <2>2. Made' \subseteq Made \cup D /\ \A p \in Package : ~Cleaning(p)
    BY <1>2, <2>1 DEF Made, Goal, Cleaning, Under
  <2> HIDE DEF D
  <2> QED
    BY <2>1, <2>2, EffectsBuilt
<1>6. CASE Fail(n[1], n[2])
  <2>1. PICK D \in SUBSET {<<n[1], n[2]>>} : Effects(D)
    BY <1>6 DEF Fail
  <2>2. /\ UNCHANGED <<ppd, ext, stamps, todo, torn>> /\ D \in SUBSET running /\ running' \subseteq running
        /\ make'.cmd = make.cmd /\ make'.pkg = make.pkg
    BY <1>6, <2>1 DEF Fail, user, OrderInv, MakeOK
  <2>3. Made' \subseteq Made \cup D /\ \A p \in Package : ~Cleaning(p)
    BY <1>2, <2>2 DEF Made, Goal, Cleaning
  <2> QED
    BY <2>1, <2>2, <2>3, EffectsBuilt
<1> QED
  BY <1>1, <1>3, <1>4, <1>5, <1>6

(* -dirclean: the package's directory goes first, then its stamps.         *)
LEMMA RemoveTreeBuilt ==
    ASSUME OwnInv, OrderInv, BuiltInv, RemoveTree
    PROVE  BuiltInv'
<1>1. /\ UNCHANGED <<ppd, ext, stamps, work, obj, todo, running, make, torn>>
      /\ tree' = [tree EXCEPT ![make.pkg] = [d \in Dir |-> [q \in Package |-> Absent]]]
  BY DEF RemoveTree, user
<1>2. make.cmd = "dirclean" /\ ppd /\ ~Idle
  <2>1. Head(rms) = "per-package" /\ rms # <<>> /\ ~Idle
    BY DEF RemoveTree, Idle
  <2>2. "per-package" \notin Step
    BY DEF Step, Source, Kind
  <2>3. make.cmd \notin Helper
    BY <2>1, <2>2 DEF OrderInv, RmsOK
  <2>4. make.cmd = "dirclean"
    BY <2>1, <2>3 DEF OrderInv, RmsOK, MakeOK, Command
  <2> QED
    BY <2>1, <2>4 DEF OrderInv, RmsOK
<1>3. Made' = Made /\ \A p \in Package : Cleaning(p)' = Cleaning(p)
  BY <1>1 DEF Made, Under, Goal, Cleaning, Idle
<1>4. \A p \in Package : ~Cleaning(p) => tree'[p] = tree[p]
  BY <1>1, <1>2 DEF Cleaning, OwnInv, TypeOK, Tree
<1>5. SourcesOK'
  BY <1>1, <1>3 DEF BuiltInv, SourcesOK
<1>6. InstalledOK'
  BY <1>1, <1>2, <1>3, <1>4 DEF BuiltInv, InstalledOK, TreeOf, Installing
<1>7. CopiedOK'
  BY <1>1, <1>3, <1>4 DEF BuiltInv, CopiedOK
<1> QED
  BY <1>5, <1>6, <1>7 DEF BuiltInv

LEMMA RemoveBuildDirBuilt ==
    ASSUME OwnInv, OrderInv, BuiltInv, RemoveBuildDir
    PROVE  BuiltInv'
<1> DEFINE p == make.pkg
<1>1. /\ UNCHANGED <<ppd, ext, tree, torn, running>> /\ make.phase = "read"
      /\ make'.phase = "ok"
      /\ stamps' = {n \in stamps : n[1] # p}
      /\ work' = [work EXCEPT ![p] = Absent] /\ obj' = [obj EXCEPT ![p] = Absent]
  BY DEF RemoveBuildDir, user, OrderInv, MakeOK
<1>2. /\ Made' \subseteq Made /\ \A q \in Package : ~Cleaning(q)'
      /\ running = {} /\ \A n \in Made' : n[1] # p
  BY <1>1 DEF Made, Under, Cleaning, Idle, OrderInv, TodoOK
<1>3. \A q \in Package : q # p => ~Cleaning(q) /\ work'[q] = work[q] /\ obj'[q] = obj[q]
  BY <1>1 DEF Cleaning, OwnInv, TypeOK
<1>4. SourcesOK'
  BY <1>1, <1>2, <1>3 DEF BuiltInv, SourcesOK
<1>5. InstalledOK'
  BY <1>1, <1>2, <1>3 DEF BuiltInv, InstalledOK, TreeOf, Installing
<1>6. CopiedOK'
  BY <1>1, <1>2, <1>3 DEF BuiltInv, CopiedOK
<1> QED
  BY <1>4, <1>5, <1>6 DEF BuiltInv

LEMMA StepBuilt == OwnInv /\ OrderInv /\ BuiltInv /\ [Next]_vars => BuiltInv'
<1> SUFFICES ASSUME OwnInv, OrderInv, BuiltInv, [Next]_vars PROVE BuiltInv'
  OBVIOUS
<1>1. ASSUME NEW p \in Package, Edit(p) PROVE BuiltInv'
  <2>1. /\ UNCHANGED <<ppd, stamps, obj, tree, make, todo, running, torn>>
        /\ \A q \in Package : ext[q] # Absent => ext'[q] # Absent
        /\ \A q \in Package : work[q] # Absent => work'[q] # Absent
    BY <1>1 DEF Edit, Edited, Absent, OwnInv, TypeOK
  <2>2. Made' = Made /\ \A q \in Package : Cleaning(q)' = Cleaning(q)
    BY <2>1 DEF Made, Under, Goal, Cleaning, Idle
  <2>3. SourcesOK'
    BY <2>1, <2>2, PackageAssumption DEF BuiltInv, SourcesOK
  <2>4. InstalledOK'
    BY <2>1, <2>2 DEF BuiltInv, InstalledOK, TreeOf, Installing
  <2>5. CopiedOK'
    BY <2>1, <2>2 DEF BuiltInv, CopiedOK
  <2> QED
    BY <2>3, <2>4, <2>5 DEF BuiltInv
<1>2. ASSUME NEW cmd \in Command, NEW p \in Tree, NEW jobs \in 1 .. MaxJobs, Run(cmd, p, jobs) PROVE BuiltInv'
  <2>1. /\ UNCHANGED <<ppd, ext, stamps, work, obj, tree, running, torn>> /\ Idle
        /\ make'.phase = "read"
    BY <1>2 DEF Run, files
  <2>2. Made' \subseteq Made /\ \A q \in Package : ~Cleaning(q)
    BY <2>1 DEF Made, Under, Cleaning
  <2> QED
    BY <2>1, <2>2, BuiltKept
<1>3. CASE ReadStamps
  <2>1. /\ UNCHANGED <<ppd, ext, stamps, work, obj, tree, running, torn>> /\ todo' = Outdated
        /\ make'.cmd = make.cmd /\ make'.pkg = make.pkg /\ make.cmd # "dirclean"
    BY <1>3 DEF ReadStamps, user, files, OrderInv, MakeOK
  <2>2. Goal \ Outdated \subseteq stamps
    BY DEF Outdated, Goal, Node
  <2>3. Made' \subseteq Made /\ \A q \in Package : ~Cleaning(q)
    BY <2>1, <2>2 DEF Made, Goal, Cleaning
  <2> QED
    BY <2>1, <2>3, BuiltKept
<1>4. CASE RemoveStamp
  <2>1. /\ UNCHANGED <<ppd, ext, work, obj, tree, make, todo, running, torn>> /\ stamps' \subseteq stamps
    BY <1>4 DEF RemoveStamp, user, files
  <2>2. Made' \subseteq Made /\ \A q \in Package : Cleaning(q)' = Cleaning(q)
    BY <2>1 DEF Made, Under, Goal, Cleaning, Idle
  <2> QED
    BY <2>1, <2>2, BuiltKept
<1>5. CASE RemoveTree
  BY <1>5, RemoveTreeBuilt
<1>6. CASE RemoveBuildDir
  BY <1>6, RemoveBuildDirBuilt
<1>7. CASE Recipe
  BY <1>7, RecipeBuilt
<1>8. CASE Finalize
  <2>1. UNCHANGED <<ppd, ext, stamps, work, obj, running, torn>> /\ make'.phase \in {"ok", "failed"}
        /\ make.phase = "run"
    BY <1>8 DEF Finalize, user, NoRun, OrderInv, MakeOK
  <2>2. Made' \subseteq Made /\ \A q \in Package : ~Cleaning(q)
    BY <2>1 DEF Made, Under, Cleaning, OrderInv, MakeOK
  <2>3. \A t \in Tree, d \in Dir, q \in Package : tree[t][d][q] # Absent => tree'[t][d][q] # Absent
    <3>1. CASE UNCHANGED tree
      BY <3>1
    <3>2. CASE tree' = [tree EXCEPT ![Global] = Rsync(Package, Global)]
      <4>1. Global \in Tree /\ Package \in SUBSET Package
        BY DEF Tree
      <4>2. \A d \in Dir, q \in Package : tree[Global][d][q] # Absent => Rsync(Package, Global)[d][q] # Absent
        BY <4>1, RsyncKeeps
      <4> QED
        BY <3>2, <4>1, <4>2 DEF OwnInv, TypeOK
    <3> QED
      BY <1>8, <3>1, <3>2 DEF Finalize
  <2> QED
    BY <2>1, <2>2, <2>3, BuiltKept
<1>9. CASE Stop
  <2>1. UNCHANGED <<ppd, ext, stamps, work, obj, tree, running, torn>> /\ make' = NoRun /\ make.phase = "stop"
    BY <1>9 DEF Stop, user, files
  <2>2. Made' \subseteq Made /\ \A q \in Package : ~Cleaning(q)
    BY <2>1 DEF Made, Under, NoRun, Cleaning, OrderInv, MakeOK
  <2> QED
    BY <2>1, <2>2, BuiltKept
<1>10. CASE Interrupt
  <2>1. PICK D \in SUBSET running : Effects(D)
    BY <1>10 DEF Interrupt
  <2>2. /\ UNCHANGED <<ppd, ext, stamps>> /\ make' = NoRun /\ running' = {}
        /\ torn' = (torn \/ (make.cmd = "dirclean" /\ ppd))
    BY <1>10 DEF Interrupt, user
  <2>3. Made' \subseteq Made /\ \A q \in Package : ~torn' => ~torn /\ ~Cleaning(q)
    BY <2>2 DEF Made, Under, NoRun, Cleaning
  <2> QED
    BY <2>1, <2>2, <2>3, EffectsBuilt
<1>11. CASE UNCHANGED vars
  <2>1. UNCHANGED <<ppd, ext, stamps, work, obj, tree, make, todo, running, torn>>
    BY <1>11 DEF vars
  <2>2. Made' = Made /\ \A q \in Package : Cleaning(q)' = Cleaning(q)
    BY <2>1 DEF Made, Under, Goal, Cleaning, Idle
  <2> QED
    BY <2>1, <2>2, BuiltKept
<1> QED
  BY <1>1, <1>2, <1>3, <1>4, <1>5, <1>6, <1>7, <1>8, <1>9, <1>10, <1>11 DEF Next, Make

LEMMA Built == Spec => []BuiltInv
BY Own, Ordered, InitBuilt, StepBuilt, PTL DEF Spec

(* With per-package directories, whatever the number of jobs, what is      *)
(* rebuilt, fails or is interrupted (a -dirclean excepted), the directory  *)
(* of a configured package has the files of all the packages that it       *)
(* depends on and of no others (TreeIsClosure).                            *)
THEOREM TreesAreClosures == Spec => []TreeIsClosure
<1>1. OwnInv /\ OrderInv /\ BuiltInv => TreeIsClosure
  <2> SUFFICES ASSUME OwnInv, OrderInv, BuiltInv, ppd, ~torn, ~(make.cmd = "dirclean" /\ ~Idle),
                      NEW p \in Package, NEW d \in Dir
               PROVE  /\ <<p, "configured">> \in stamps =>
                            \A q \in Needs[p]["configured"] :
                                Installing(q, d) # {} => tree[p][d][q] # Absent
                      /\ \A q \in Package : tree[p][d][q] # Absent => q \in Closure[p] \cup {p}
    BY DEF TreeIsClosure
  <2>1. ~Cleaning(p) /\ "configured" \in Preparing
    BY DEF Cleaning, Preparing
  <2>2. <<p, "configured">> \in stamps => <<p, "configured">> \in Made
    BY DEF Made
  <2> QED
    BY <2>1, <2>2 DEF BuiltInv, CopiedOK, OwnInv, OwnTree
<1> QED
  BY <1>1, Own, Ordered, Built, PTL

LEMMA FinalizeMakesAll ==
    ASSUME OwnInv, OrderInv, BuiltInv, Finalize, make'.cmd = "all", make'.phase = "ok"
    PROVE  AllMeansAll'
<1>1. /\ UNCHANGED <<ppd, stamps, old, torn>> /\ make.phase = "run" /\ todo = {}
      /\ make.cmd = "all"
      /\ ppd => tree' = [tree EXCEPT ![Global] = Rsync(Package, Global)]
      /\ ~ppd => UNCHANGED tree
  BY DEF Finalize, user, NoRun, OrderInv, MakeOK
<1>2. Node \subseteq stamps \ old
  BY <1>1 DEF OrderInv, UpToDate, Under, Goal, Helper
<1>3. stamps = Node /\ old = {}
  BY <1>2 DEF OrderInv, StampsOK
<1>4. ASSUME ~torn, NEW p \in Package, "target" \in Kinds[p]
      PROVE  tree'[Global]["target"][p] # Absent
  <2>1. "target" \in Dir /\ "target" \in Installing(p, "target")
    BY <1>4 DEF Dir, Installing
  <2>2. <<p, "target">> \in Node
    BY <1>4 DEF Node, Steps, Step, Kind
  <2>3. <<p, "target">> \in Made /\ ~Cleaning(p)
    BY <1>1, <1>3, <2>2 DEF Made, Cleaning
  <2>4. tree[TreeOf(p)]["target"][p] # Absent
    BY <1>4, <2>1, <2>3 DEF BuiltInv, InstalledOK
  <2>5. CASE ~ppd
    BY <1>1, <2>4, <2>5 DEF TreeOf
  <2>6. CASE ppd
    <3>1. tree[p]["target"][p] # Absent
      BY <2>4, <2>6 DEF TreeOf
    <3>2. Global \in Tree /\ Package \in SUBSET Package
      BY DEF Tree
    <3>3. Rsync(Package, Global)["target"][p] # Absent
      BY <2>1, <3>1, <3>2, RsyncKeeps
    <3> QED
      BY <1>1, <2>6, <3>2, <3>3 DEF OwnInv, TypeOK
  <2> QED
    BY <2>5, <2>6
<1> QED
  BY <1>1, <1>3, <1>4 DEF AllMeansAll

(* When `make all' succeeds nothing is missing or out of date, however     *)
(* often it has failed or been interrupted before, and however many jobs   *)
(* it had (AllMeansAll).                                                   *)
THEOREM AllIsAll == Spec => []AllMeansAll
<1>1. Init => AllMeansAll
  BY DEF Init, NoRun, AllMeansAll
<1>2. OwnInv /\ OrderInv /\ BuiltInv /\ AllMeansAll /\ [Next]_vars => AllMeansAll'
  <2> SUFFICES ASSUME OwnInv, OrderInv, BuiltInv, AllMeansAll, [Next]_vars,
                      make'.cmd = "all", make'.phase = "ok"
               PROVE  AllMeansAll'
    BY DEF AllMeansAll
  <2>1. ASSUME UNCHANGED <<stamps, old, tree, make>>, torn => torn' PROVE AllMeansAll'
    BY <2>1 DEF AllMeansAll
  <2>2. ASSUME NEW p \in Package, Edit(p) PROVE AllMeansAll'
    BY <2>1, <2>2 DEF Edit
  <2>3. CASE Finalize
    BY <2>3, FinalizeMakesAll
  <2>4. CASE UNCHANGED vars
    BY <2>1, <2>4 DEF vars
  <2>5. ASSUME NEW cmd \in Command, NEW p \in Tree, NEW jobs \in 1 .. MaxJobs, Run(cmd, p, jobs) PROVE FALSE
    BY <2>5 DEF Run
  <2>6. ~ (ReadStamps \/ RemoveStamp \/ RemoveTree)
    BY DEF ReadStamps, RemoveStamp, RemoveTree, OrderInv, MakeOK
  <2>7. ~ RemoveBuildDir
    <3> SUFFICES ASSUME RemoveBuildDir PROVE FALSE
      OBVIOUS
    <3>1. make.cmd = "all" /\ rms # <<>>
      BY DEF RemoveBuildDir, OrderInv, MakeOK
    <3> QED
      BY <3>1 DEF OrderInv, RmsOK
  <2>8. ~ Recipe
    <3> SUFFICES ASSUME Recipe PROVE FALSE
      OBVIOUS
    <3>1. Under
      BY DEF Recipe, OrderInv, TodoOK
    <3>2. make'.phase \in {"run", "stop"}
      BY <3>1 DEF Recipe, Start, PrepareFails, Finish, Fail, OrderInv, MakeOK, Under
    <3> QED
      BY <3>2
  <2>9. ~ (Stop \/ Interrupt)
    BY DEF Stop, Interrupt, NoRun
  <2> QED
    BY <2>2, <2>3, <2>4, <2>5, <2>6, <2>7, <2>8, <2>9 DEF Next, Make
<1> QED
  BY <1>1, <1>2, Own, Ordered, Built, PTL DEF Spec

-----------------------------------------------------------------------------
(* A -rebuild or -reconfigure by make -j1.                                 *)

Rebuilding == make.jobs = 1 /\ make.cmd \in {"rebuild", "reconfigure"}

(* The stamp of step s is not there, or will be removed.                   *)
Has(q, x) == \E i \in DOMAIN q : q[i] = x

Dropped(s) == <<make.pkg, s>> \in Node => <<make.pkg, s>> \notin stamps \/ Has(rms, s)

(* As far as the steps of the package have got, their results are made of  *)
(* one another's.                                                          *)
UpToSources ==
    LET p == make.pkg
    IN  /\ p \in Override /\ <<p, "rsynced">> \notin todo => work[p] = ext[p]
        /\ <<p, "built">> \notin todo =>
            obj[p] = work[p] /\ <<p, "rsynced">> \notin todo /\ <<p, "extracted">> \notin todo
        /\ "target" \in Kinds[p] /\ <<p, "target">> \notin todo =>
            <<p, "built">> \notin todo /\ tree[TreeOf(p)]["target"][p] = obj[p]

SerialOK == Rebuilding =>
    /\ make.phase = "read" => Dropped("rsynced") /\ Dropped("built") /\ Dropped("target")
    /\ make.phase = "run" => UpToSources

LEMMA ConcatHas ==
    ASSUME NEW S, NEW u \in Seq(S), NEW v \in Seq(S), NEW x
    PROVE  Has(u, x) \/ Has(v, x) => Has(u \o v, x)
<1>1. u \o v \in Seq(S) /\ Len(u \o v) = Len(u) + Len(v) /\ Len(u) \in Nat /\ Len(v) \in Nat
  OBVIOUS
<1>2. DOMAIN (u \o v) = 1 .. Len(u) + Len(v) /\ DOMAIN u = 1 .. Len(u) /\ DOMAIN v = 1 .. Len(v)
  BY <1>1
<1>3. ASSUME NEW i \in 1 .. Len(u), u[i] = x
      PROVE  i \in 1 .. Len(u) + Len(v) /\ (u \o v)[i] = x
  BY <1>1, <1>3
<1>4. ASSUME NEW i \in 1 .. Len(v), v[i] = x
      PROVE  Len(u) + i \in 1 .. Len(u) + Len(v) /\ (u \o v)[Len(u) + i] = x
  BY <1>1, <1>4
<1> QED
  BY <1>2, <1>3, <1>4 DEF Has

LEMMA RemovalsDrop ==
    ASSUME NEW p \in Package, NEW cmd \in {"rebuild", "reconfigure"},
           NEW s \in {"built", "target"} \cup {x \in {"rsynced"} : p \in Override}
    PROVE  Has(Removals(cmd, p), s)
<1> DEFINE head == IF p \in Override THEN <<"rsynced">> ELSE <<>>
           tail == <<"installed", "staging", "target", "images", "host">>
<1>1. /\ head \in Seq(Step) /\ tail \in Seq(Step) /\ <<"built">> \in Seq(Step)
      /\ <<"configured">> \in Seq(Step)
  <2>1. <<"rsynced">> \in Seq(Step) /\ <<>> \in Seq(Step)
    BY DEF Step
  <2>2. <<"built">> \in Seq(Step) /\ <<"configured">> \in Seq(Step)
    BY DEF Step
  <2>3. tail \in Seq(Step)
    BY DEF Step, Kind
  <2> QED
    BY <2>1, <2>2, <2>3
<1>2. Has(<<"rsynced">>, "rsynced") /\ Has(<<"built">>, "built")
  <2>1. 1 \in DOMAIN <<"rsynced">> /\ <<"rsynced">>[1] = "rsynced"
    OBVIOUS
  <2>2. 1 \in DOMAIN <<"built">> /\ <<"built">>[1] = "built"
    OBVIOUS
  <2> QED
    BY <2>1, <2>2 DEF Has
<1>3. Has(tail, "target")
  <2>1. 3 \in DOMAIN tail /\ tail[3] = "target"
    OBVIOUS
  <2> QED
    BY <2>1 DEF Has
<1>4. p \in Override => Has(head, "rsynced")
  BY <1>2
<1>5. CleanForReinstall(p) = head \o tail
  BY DEF CleanForReinstall
<1> HIDE DEF head, tail
<1>6. /\ CleanForReinstall(p) \in Seq(Step)
      /\ s \in {"rsynced", "target"} => Has(CleanForReinstall(p), s)
  BY <1>1, <1>3, <1>4, <1>5, ConcatHas
<1>7. CleanForRebuild(p) \in Seq(Step) /\ Has(CleanForRebuild(p), s)
  <2>1. Has(CleanForReinstall(p), s) \/ Has(<<"built">>, s)
    BY <1>2, <1>6
  <2>2. CleanForReinstall(p) \o <<"built">> \in Seq(Step)
    BY <1>1, <1>6
  <2>3. Has(CleanForReinstall(p) \o <<"built">>, s)
    BY <1>1, <1>6, <2>1, ConcatHas
  <2> QED
    BY <2>2, <2>3 DEF CleanForRebuild
<1>8. Has(CleanForReconfigure(p), s)
  BY <1>1, <1>7, ConcatHas DEF CleanForReconfigure
<1>9. Removals("rebuild", p) = CleanForRebuild(p) /\ Removals("reconfigure", p) = CleanForReconfigure(p)
  BY DEF Removals
<1> QED
  BY <1>7, <1>8, <1>9

(* The files of the steps that come first are kept while the last ones     *)
(* have not to be made again.                                              *)
LEMMA StartSerial ==
    ASSUME OwnInv, OrderInv, UpToSources, make.pkg \in Package,
           NEW q, NEW s, <<q, s>> \in todo, Start(q, s)
    PROVE  UpToSources'
<1> DEFINE p == make.pkg
<1>1. /\ UNCHANGED <<ppd, ext, work, obj, make, todo>> /\ ListFiles(q, s)
  BY DEF Start, user
<1>2. ASSUME "target" \in Kinds[p], <<p, "target">> \notin todo
      PROVE  tree'[TreeOf(p)]["target"][p] = tree[TreeOf(p)]["target"][p]
  <2>1. UNCHANGED tree \/ (ppd /\ s \in Preparing /\ tree' = [tree EXCEPT ![q] = Rsync(Deps[q][s], q)])
    BY <1>1 DEF ListFiles, PrepareDirs
  <2>2. ASSUME s \in Preparing PROVE q # p
    <3>1. s \in Before["target"] /\ s # "rsynced" /\ "target" \in Steps[p]
      BY <1>2, <2>2, BeforeTable DEF Preparing, Source, Steps
    <3> QED
      BY <1>2, <3>1 DEF OrderInv, UpClosed
  <2> QED
    BY <2>1, <2>2 DEF TreeOf, Tree, OwnInv, TypeOK
<1> QED
  BY <1>1, <1>2 DEF UpToSources, TreeOf

LEMMA FinishSerial ==
    ASSUME OwnInv, OrderInv, UpToSources, make.pkg \in Package,
           NEW q, NEW s, <<q, s>> \in Node, Finish(q, s)
    PROVE  UpToSources'
<1> DEFINE p == make.pkg
<1>1. /\ UNCHANGED <<ppd, ext, make>> /\ Effects({<<q, s>>}) /\ todo' = todo \ {<<q, s>>}
      /\ <<q, s>> \in running /\ <<q, s>> \in todo
  BY DEF Finish, user, OrderInv, TodoOK
<1>2. /\ work'[p] = IF q = p /\ s = "extracted" THEN Pristine
                    ELSE IF q = p /\ s = "rsynced" THEN ext[p] ELSE work[p]
      /\ obj'[p] = IF q = p /\ s = "built" THEN work[p] ELSE obj[p]
  BY <1>1 DEF Effects
<1>3. "target" \in Kinds[p] =>
        tree'[TreeOf(p)]["target"][p] =
            IF q = p /\ s = "target" THEN obj[p] ELSE tree[TreeOf(p)]["target"][p]
  <2> SUFFICES ASSUME "target" \in Kinds[p]
               PROVE  tree'[TreeOf(p)]["target"][p] =
                        IF q = p /\ s = "target" THEN obj[p] ELSE tree[TreeOf(p)]["target"][p]
    OBVIOUS
  <2>1. TreeOf(p) \in Tree /\ "target" \in Dir /\ Installing(p, "target") = {"target"}
    BY DEF TreeOf, Tree, Dir, Installing
  <2>2. CASE s \notin Kind
    BY <1>1, <2>2 DEF Effects, Kind
  <2>3. CASE s \in Kind
    <3>1. tree' = [t \in Tree |-> [d \in Dir |-> [r \in Package |->
                        IF t = TreeOf(r) /\ \E k \in Installing(r, d) : <<r, k>> \in {<<q, s>>}
                        THEN obj[r] ELSE tree[t][d][r]]]]
      BY <1>1, <2>3 DEF Effects
    <3> QED
      BY <2>1, <3>1
  <2> QED
    BY <2>2, <2>3
<1>4. Reach[q][s] \cap todo = {} /\ q \in Package /\ s \in Step /\ s \in Steps[q]
  BY <1>1 DEF OrderInv, Waits, Node
<1>5. \A t \in Before[s] : <<q, t>> \notin todo
  <2>1. \A t \in Before[s] : <<q, t>> \in Node => <<q, t>> \in Reach[q][s]
    BY <1>4 DEF Reach
  <2> QED
    BY <1>4, <2>1 DEF OrderInv, TodoOK, Goal
<1>6. ASSUME p \in Override, <<p, "rsynced">> \notin todo'
      PROVE  work'[p] = ext[p]
  <2>1. q = p => s # "extracted"
    BY <1>4, <1>6, PackageAssumption DEF Steps, Kind, Source
  <2>2. CASE q = p /\ s = "rsynced"
    BY <1>2, <2>2
  <2>3. CASE ~ (q = p /\ s = "rsynced")
    BY <1>1, <1>2, <1>6, <2>1, <2>3 DEF UpToSources
  <2> QED
    BY <2>2, <2>3
<1>7. ASSUME <<p, "built">> \notin todo'
      PROVE  obj'[p] = work'[p] /\ <<p, "rsynced">> \notin todo' /\ <<p, "extracted">> \notin todo'
  <2>1. CASE q = p /\ s = "built"
    BY <1>1, <1>2, <1>5, <2>1, BeforeTable DEF Source
  <2>2. CASE ~ (q = p /\ s = "built")
    <3>1. <<p, "built">> \notin todo
      BY <1>1, <1>7, <2>2
    <3>2. obj[p] = work[p] /\ <<p, "rsynced">> \notin todo /\ <<p, "extracted">> \notin todo
      BY <3>1 DEF UpToSources
    <3> QED
      BY <1>1, <1>2, <2>2, <3>2
  <2> QED
    BY <2>1, <2>2
<1>8. ASSUME "target" \in Kinds[p], <<p, "target">> \notin todo'
      PROVE  <<p, "built">> \notin todo' /\ tree'[TreeOf(p)]["target"][p] = obj'[p]
  <2>1. CASE q = p /\ s = "target"
    BY <1>1, <1>2, <1>3, <1>5, <1>8, <2>1, BeforeTable
  <2>2. CASE ~ (q = p /\ s = "target")
    <3>1. <<p, "target">> \notin todo
      BY <1>1, <1>8, <2>2
    <3>2. <<p, "built">> \notin todo /\ tree[TreeOf(p)]["target"][p] = obj[p]
      BY <1>8, <3>1 DEF UpToSources
    <3> QED
      BY <1>1, <1>2, <1>3, <1>8, <2>2, <3>2
  <2> QED
    BY <2>1, <2>2
<1> QED
  BY <1>1, <1>6, <1>7, <1>8 DEF UpToSources, TreeOf

LEMMA RunSerial ==
    ASSUME NEW cmd \in Command, NEW p \in Tree, NEW jobs \in 1 .. MaxJobs, Run(cmd, p, jobs)
    PROVE  SerialOK'
<1>1. make' = [cmd |-> cmd, pkg |-> p, jobs |-> jobs, phase |-> "read"] /\ rms' = Removals(cmd, p)
  BY DEF Run
<1> SUFFICES ASSUME cmd \in {"rebuild", "reconfigure"}
             PROVE  (Dropped("rsynced") /\ Dropped("built") /\ Dropped("target"))'
  BY <1>1 DEF SerialOK, Rebuilding
<1>2. p \in Package
  BY DEF Run, Tree
<1>3. <<p, "rsynced">> \in Node => p \in Override
  BY <1>2, PackageAssumption DEF Node, Steps, Source, Kind
<1>4. /\ p \in Override => Has(Removals(cmd, p), "rsynced")
      /\ Has(Removals(cmd, p), "built") /\ Has(Removals(cmd, p), "target")
  BY <1>2, RemovalsDrop
<1> QED
  BY <1>1, <1>3, <1>4 DEF Dropped

LEMMA RemoveStampSerial ==
    ASSUME OrderInv, SerialOK, RemoveStamp
    PROVE  SerialOK'
<1>1. UNCHANGED make /\ rms # <<>> /\ rms' = Tail(rms) /\ stamps' = stamps \ {<<make.pkg, Head(rms)>>}
  BY DEF RemoveStamp
<1> SUFFICES ASSUME Rebuilding
             PROVE  /\ make.phase = "read" => (Dropped("rsynced") /\ Dropped("built") /\ Dropped("target"))'
                    /\ make.phase # "run"
  BY <1>1 DEF SerialOK, Rebuilding
<1>2. make.phase = "read" /\ rms \in Seq(Step)
  BY <1>1 DEF RemoveStamp, Rebuilding, OrderInv, RmsOK, Under, Idle, Helper
<1>3. ASSUME NEW s, Dropped(s) PROVE Dropped(s)'
  <2>1. CASE s = Head(rms)
    BY <1>1, <2>1 DEF Dropped
  <2>2. ASSUME s # Head(rms), NEW i \in DOMAIN rms, rms[i] = s PROVE Has(Tail(rms), s)
    <3>1. Len(rms) \in Nat /\ DOMAIN rms = 1 .. Len(rms) /\ Head(rms) = rms[1]
      BY <1>2
    <3>2. i - 1 \in 1 .. Len(rms) - 1
      BY <2>2, <3>1
    <3>3. DOMAIN Tail(rms) = 1 .. Len(rms) - 1 /\ Tail(rms)[i - 1] = rms[i]
      BY <1>1, <1>2, <3>1, <3>2
    <3> QED
      BY <2>2, <3>2, <3>3 DEF Has
  <2>3. CASE s # Head(rms) /\ Has(rms, s)
    BY <1>1, <2>2, <2>3 DEF Dropped, Has
  <2> QED
    BY <1>1, <1>3, <2>1, <2>3 DEF Dropped
<1> QED
  BY <1>2, <1>3 DEF SerialOK

(* make -j1 looks at the stamps when all of the removals are done.         *)
LEMMA ReadSerial ==
    ASSUME OrderInv, SerialOK, ReadStamps
    PROVE  SerialOK'
<1>1. /\ make'.cmd = make.cmd /\ make'.pkg = make.pkg /\ make'.jobs = make.jobs /\ make'.phase = "run"
      /\ todo' = Outdated /\ make.phase = "read"
      /\ make.jobs = 1 => rms = <<>>
  BY DEF ReadStamps, OrderInv, MakeOK
<1> SUFFICES ASSUME Rebuilding PROVE UpToSources'
  BY <1>1 DEF SerialOK, Rebuilding
<1>2. make.pkg \in Package /\ make.cmd # "all"
  BY DEF Rebuilding, OrderInv, MakeOK
<1>3. \A s \in {"rsynced", "built", "target"} : <<make.pkg, s>> \in Node => <<make.pkg, s>> \notin stamps
  <2>1. rms = <<>>
    BY <1>1 DEF Rebuilding
  <2>2. \A s : ~Has(<<>>, s)
    BY DEF Has
  <2>3. Dropped("rsynced") /\ Dropped("built") /\ Dropped("target")
    BY <1>1 DEF SerialOK
  <2> QED
    BY <2>1, <2>2, <2>3 DEF Dropped
<1>4. ASSUME NEW s \in {"rsynced", "built", "target"}, <<make.pkg, s>> \in Node
      PROVE  <<make.pkg, s>> \in todo'
  <2>1. <<make.pkg, s>> \in Goal
    BY <1>2, <1>4 DEF Goal
  <2> QED
    BY <1>1, <1>3, <1>4, <2>1 DEF Outdated
<1>5. /\ <<make.pkg, "built">> \in Node
      /\ make.pkg \in Override => <<make.pkg, "rsynced">> \in Node
      /\ "target" \in Kinds[make.pkg] => <<make.pkg, "target">> \in Node
  BY <1>2 DEF Node, Steps, Step, Kind
<1> QED
  BY <1>1, <1>4, <1>5 DEF UpToSources

LEMMA StepSerial == OwnInv /\ OrderInv /\ SerialOK /\ [Next]_vars => SerialOK'
<1> SUFFICES ASSUME OwnInv, OrderInv, SerialOK, [Next]_vars PROVE SerialOK'
  OBVIOUS
<1>1. ASSUME make'.phase \notin {"read", "run"} PROVE SerialOK'
  BY <1>1 DEF SerialOK
<1>2. ASSUME NEW p \in Package, Edit(p) PROVE SerialOK'
  BY <1>1, <1>2 DEF Edit, Idle
<1>3. ASSUME NEW cmd \in Command, NEW p \in Tree, NEW jobs \in 1 .. MaxJobs, Run(cmd, p, jobs) PROVE SerialOK'
  BY <1>3, RunSerial
<1>4. CASE ReadStamps
  BY <1>4, ReadSerial
<1>5. CASE RemoveStamp
  BY <1>5, RemoveStampSerial
<1>6. CASE RemoveTree \/ RemoveBuildDir
  <2>1. rms # <<>> /\ Head(rms) \in {"per-package", "build"} /\ ~Idle
    BY <1>6 DEF RemoveTree, RemoveBuildDir, Idle
  <2>2. "per-package" \notin Step /\ "build" \notin Step
    BY DEF Step, Source, Kind
  <2>3. make.cmd \notin Helper
    BY <2>1, <2>2 DEF OrderInv, RmsOK
  <2>4. make'.cmd = make.cmd
    BY <1>6 DEF RemoveTree, RemoveBuildDir, OrderInv, MakeOK
  <2> QED
    BY <2>3, <2>4 DEF SerialOK, Rebuilding, Helper
<1>7. CASE Recipe
  <2>1. PICK n \in todo : Start(n[1], n[2]) \/ PrepareFails(n[1], n[2]) \/ Finish(n[1], n[2]) \/ Fail(n[1], n[2])
    BY <1>7 DEF Recipe
  <2>2. n \in Node /\ n = <<n[1], n[2]>> /\ Under
    BY DEF OrderInv, TodoOK, Goal, Node
  <2>3. CASE PrepareFails(n[1], n[2]) \/ Fail(n[1], n[2])
    BY <1>1, <2>3 DEF PrepareFails, Fail, OrderInv, MakeOK
  <2>4. CASE Start(n[1], n[2]) \/ Finish(n[1], n[2])
    <3>1. UNCHANGED make
      BY <2>4 DEF Start, Finish
    <3> SUFFICES ASSUME Rebuilding, make.phase = "run" PROVE UpToSources'
      BY <2>2, <3>1 DEF SerialOK, Rebuilding, Under
    <3>2. UpToSources /\ make.pkg \in Package
      BY DEF SerialOK, Rebuilding, OrderInv, MakeOK
    <3> QED
      BY <2>2, <2>4, <3>2, StartSerial, FinishSerial
  <2> QED
    BY <2>1, <2>3, <2>4
<1>8. CASE Finalize
  BY <1>1, <1>8 DEF Finalize, NoRun, OrderInv, MakeOK
<1>9. CASE Stop \/ Interrupt
  BY <1>1, <1>9 DEF Stop, Interrupt, NoRun
<1>10. CASE UNCHANGED vars
  BY <1>10 DEF vars, SerialOK, Rebuilding, Dropped, UpToSources, TreeOf
<1> QED
  BY <1>2, <1>3, <1>4, <1>5, <1>6, <1>7, <1>8, <1>9, <1>10 DEF Next, Make

LEMMA Serial == Spec => []SerialOK
<1>1. Init => SerialOK
  BY DEF Init, NoRun, SerialOK
<1> QED
  BY <1>1, Own, Ordered, StepSerial, PTL DEF Spec

(* A successful -rebuild or -reconfigure by make -j1 has installed what    *)
(* the sources were when it ended, whatever the user edited, failed or     *)
(* interrupted before (SerialRebuildIsFresh).                              *)
THEOREM SerialRebuilds == Spec => SerialRebuildIsFresh
<1>1. ASSUME OwnInv, OrderInv, SerialOK, [Next]_vars,
             make.cmd \in {"rebuild", "reconfigure"}, make'.phase = "ok", ~Idle, make.jobs = 1
      PROVE  Fresh(make.pkg)'
  <2>1. Rebuilding /\ make.pkg \in Package
    BY <1>1 DEF Rebuilding, OrderInv, MakeOK
  <2>2. CASE Finalize
    <3>1. /\ UNCHANGED <<ppd, ext, work, obj, tree>> /\ todo = {} /\ make.phase = "run"
          /\ make' = [make EXCEPT !.phase = "ok"]
      BY <1>1, <2>2 DEF Finalize, user
    <3>2. UpToSources /\ make'.pkg = make.pkg
      BY <1>1, <2>1, <3>1 DEF SerialOK, OrderInv, MakeOK
    <3> QED
      BY <3>1, <3>2 DEF UpToSources, Fresh, Wanted, TreeOf
  <2>3. ASSUME make' = make PROVE FALSE
    BY <1>1, <2>3 DEF Idle
  <2>4. ~ RemoveBuildDir
    <3> SUFFICES ASSUME RemoveBuildDir PROVE FALSE
      OBVIOUS
    <3>1. rms # <<>> /\ Head(rms) = "build" /\ rms \in Seq(Step)
      BY <1>1 DEF RemoveBuildDir, OrderInv, RmsOK, Helper
    <3>2. "build" \notin Step
      BY DEF Step, Source, Kind
    <3> QED
      BY <3>1, <3>2
  <2>5. ~ ReadStamps /\ ~ RemoveStamp /\ ~ RemoveTree
    BY <1>1, <2>3 DEF ReadStamps, RemoveStamp, RemoveTree, OrderInv, MakeOK
  <2>6. ~ Recipe
    <3> SUFFICES ASSUME Recipe PROVE FALSE
      OBVIOUS
    <3>1. make' = make \/ make' = [make EXCEPT !.phase = "stop"]
      BY DEF Recipe, Start, PrepareFails, Finish, Fail
    <3> QED
      BY <1>1, <2>3, <3>1 DEF OrderInv, MakeOK
  <2>7. ~ Stop /\ ~ Interrupt
    BY <1>1 DEF Stop, Interrupt, NoRun
  <2>8. \A p \in Package : ~ Edit(p)
    BY <1>1 DEF Edit
  <2>9. \A cmd \in Command, p \in Tree, jobs \in 1 .. MaxJobs : ~ Run(cmd, p, jobs)
    BY <1>1 DEF Run
  <2>10. ~ UNCHANGED vars
    BY <2>3 DEF vars
  <2> QED
    BY <1>1, <2>2, <2>4, <2>5, <2>6, <2>7, <2>8, <2>9, <2>10 DEF Next, Make
<1>2. OwnInv /\ OrderInv /\ SerialOK /\ [Next]_vars =>
        [make.cmd \in {"rebuild", "reconfigure"} /\ make'.phase = "ok" /\ ~Idle
            /\ make.jobs = 1 => Fresh(make.pkg)']_vars
  BY <1>1
<1> QED
  BY <1>2, Own, Ordered, Serial, PTL DEF Spec, SerialRebuildIsFresh

-----------------------------------------------------------------------------
(* Nothing waits for itself: make always finds a recipe to run.            *)

LEMMA ReachIsTransitive ==
    ASSUME NEW n \in Node, NEW m \in Reach[n[1]][n[2]]
    PROVE  /\ m \in Node
           /\ Reach[m[1]][m[2]] \subseteq Reach[n[1]][n[2]]
<1> DEFINE p == n[1]
           s == n[2]
           q == m[1]
           t == m[2]
<1>1. p \in Package /\ s \in Step
  BY DEF Node
<1>2. m \in Node /\ ((q = p /\ t \in Before[s]) \/ q \in Needs[p][s])
  BY <1>1 DEF Reach
<1>3. q \in Package /\ t \in Step
  BY <1>2 DEF Node
<1> SUFFICES ASSUME NEW r \in Reach[q][t] PROVE r \in Reach[p][s]
  BY <1>2
<1>4. r \in Node /\ ((r[1] = q /\ r[2] \in Before[t]) \/ r[1] \in Needs[q][t])
  BY <1>3 DEF Reach
<1>5. CASE q = p /\ t \in Before[s]
  <2>1. Needs[p][t] \subseteq Needs[p][s] /\ (r[2] \in Before[t] => r[2] \in Before[s])
    BY <1>1, <1>5, NeedsGrow, BeforeIsTransitive
  <2> QED
    BY <1>1, <1>4, <1>5, <2>1 DEF Reach
<1>6. CASE q \in Needs[p][s]
  <2>1. Closure[q] \subseteq Needs[p][s]
    <3> DEFINE direct == UNION {Deps[p][u] : u \in ({s} \cup Before[s]) \cap Preparing \cap Steps[p]}
    <3>1. Needs[p][s] = direct \cup UNION {Closure[x] : x \in direct}
      BY <1>1 DEF Needs
    <3>2. direct \subseteq Package
      BY <1>1, PackageAssumption
    <3>3. \A x \in direct : q \in Closure[x] => Closure[q] \subseteq Closure[x]
      BY <3>2, ClosureIsTransitive
    <3> HIDE DEF direct
    <3> QED
      BY <1>6, <3>1, <3>3
  <2>2. r[1] \in Needs[p][s]
    BY <1>3, <1>4, <1>6, <2>1, NeedsInClosure
  <2> QED
    BY <1>1, <1>4, <2>2 DEF Reach
<1> QED
  BY <1>2, <1>5, <1>6

LEMMA ReachIsAcyclic ==
    ASSUME NEW n \in Node
    PROVE  n \notin Reach[n[1]][n[2]]
<1>1. n[1] \in Package /\ n[2] \in Step
  BY DEF Node
<1>2. n[1] \notin Needs[n[1]][n[2]]
  BY <1>1, NeedsInClosure, Acyclic
<1>3. \A s \in Step : s \notin Before[s]
  BY BeforeTable DEF Step, Source, Kind
<1> QED
  BY <1>1, <1>2, <1>3 DEF Reach

LEMMA NodesAreFinite == IsFiniteSet(Node)
<1>0. \A S, T : IsFiniteSet(S) /\ IsFiniteSet(T) => IsFiniteSet(S \cup T)
  BY FS_Union
<1>1. IsFiniteSet(Step)
  <2>1. ASSUME NEW w, NEW x, NEW y, NEW z PROVE IsFiniteSet({w, x, y, z})
    <3>1. IsFiniteSet({w} \cup {x}) /\ IsFiniteSet({y} \cup {z})
      BY <1>0, FS_Singleton
    <3>2. {w, x, y, z} = ({w} \cup {x}) \cup ({y} \cup {z})
      OBVIOUS
    <3> QED
      BY <1>0, <3>1, <3>2
  <2>2. /\ IsFiniteSet({"downloaded", "extracted", "patched", "patched"})
        /\ IsFiniteSet({"rsynced", "configured", "built", "installed"})
        /\ IsFiniteSet({"host", "staging", "target", "images"})
    BY <2>1
  <2>3. Step = ({"downloaded", "extracted", "patched", "patched"}
                 \cup {"rsynced", "configured", "built", "installed"})
                 \cup {"host", "staging", "target", "images"}
    BY DEF Step, Source, Kind
  <2> QED
    BY <1>0, <2>2, <2>3
<1>2. IsFiniteSet(Package \X Step)
  BY <1>1, PackageAssumption, FS_Product
<1> QED
  BY <1>2, FS_Subset DEF Node

(* Of the stamps that are to be made, one waits for none of the others.    *)
LEMMA FirstToMake ==
    ASSUME NEW T \in SUBSET Node, T # {}
    PROVE  \E n \in T : Reach[n[1]][n[2]] \cap T = {}
<1> DEFINE height(n) == Cardinality(Reach[n[1]][n[2]])
           H == {height(n) : n \in T}
<1>1. \A n \in T : n[1] \in Package /\ n[2] \in Step
  BY DEF Node
<1>2. ASSUME NEW n \in T
      PROVE  Reach[n[1]][n[2]] \in SUBSET Node /\ IsFiniteSet(Reach[n[1]][n[2]]) /\ height(n) \in Nat
  <2>1. Reach[n[1]][n[2]] \in SUBSET Node
    BY <1>1 DEF Reach
  <2> QED
    BY <2>1, NodesAreFinite, FS_Subset, FS_CardinalityType
<1>3. H \subseteq Nat /\ H # {}
  BY <1>2
<1>4. PICK h \in H : \A y \in H : ~ (<<y, h>> \in OpToRel(<, Nat))
  BY <1>3, WFMin, NatLessThanWellFounded
<1>5. PICK n \in T : h = height(n)
  BY <1>4
<1>6. ASSUME NEW m \in Reach[n[1]][n[2]] \cap T PROVE FALSE
  <2>1. Reach[m[1]][m[2]] \in SUBSET Reach[n[1]][n[2]]
    BY ReachIsTransitive
  <2>2. m \notin Reach[m[1]][m[2]]
    BY ReachIsAcyclic
  <2>3. height(m) \in Nat /\ height(n) \in Nat /\ height(m) <= height(n) /\ height(m) # height(n)
    BY <1>2, <2>1, <2>2, FS_Subset
  <2>4. height(m) \in H /\ height(m) < height(n)
    BY <2>3
  <2> QED
    BY <1>3, <1>4, <1>5, <2>3, <2>4 DEF OpToRel
<1> QED
  BY <1>6

(* The jobs and the removals of a run of make.                             *)
BoundsOK == make.jobs >= 1 /\ Len(rms) <= 8

LEMMA Bounded == Spec => []BoundsOK
<1>1. Init => BoundsOK
  BY DEF Init, NoRun, BoundsOK
<1>2. OrderInv /\ BoundsOK /\ [Next]_vars => BoundsOK'
  <2> SUFFICES ASSUME OrderInv, BoundsOK, [Next]_vars PROVE BoundsOK'
    OBVIOUS
  <2> USE DEF BoundsOK
  <2>1. ASSUME rms # <<>>, rms \in Seq(Step) \/ rms \in {<<"build">>, <<"per-package", "build">>}
        PROVE  Len(Tail(rms)) <= 8
    BY <2>1
  <2>2. ASSUME NEW cmd \in Command, NEW p \in Tree, NEW jobs \in 1 .. MaxJobs, Run(cmd, p, jobs)
        PROVE  BoundsOK'
    <3>1. make'.jobs = jobs /\ rms' = Removals(cmd, p)
      BY <2>2 DEF Run
    <3>2. Len(Removals(cmd, p)) <= 8
      BY DEF Removals, CleanForReconfigure, CleanForRebuild, CleanForReinstall
    <3> QED
      BY <3>1, <3>2, BuildAssumption
  <2>3. rms # <<>> /\ ~Idle => rms \in Seq(Step) \/ rms \in {<<"build">>, <<"per-package", "build">>}
    BY DEF OrderInv, MakeOK, RmsOK, Helper, Command
  <2>4. ASSUME RemoveStamp \/ RemoveTree \/ RemoveBuildDir
        PROVE  BoundsOK'
    <3>1. rms # <<>> /\ ~Idle /\ rms' = Tail(rms) /\ make'.jobs = make.jobs
      BY <2>4 DEF RemoveStamp, RemoveTree, RemoveBuildDir, Idle, OrderInv, MakeOK
    <3> QED
      BY <2>1, <2>3, <3>1
  <2>5. CASE ReadStamps \/ Recipe
    <3>1. rms' = rms /\ make'.jobs = make.jobs
      BY <2>5 DEF ReadStamps, Recipe, Start, PrepareFails, Finish, Fail, OrderInv, MakeOK
    <3> QED
      BY <3>1
  <2>6. CASE Finalize \/ Stop \/ Interrupt
    <3>1. (rms' = rms \/ rms' = <<>>) /\ make'.jobs \in {1, make.jobs}
      BY <2>6 DEF Finalize, Stop, Interrupt, NoRun, OrderInv, MakeOK
    <3> QED
      BY <3>1 DEF OrderInv, MakeOK
  <2>7. ASSUME NEW p \in Package, Edit(p) PROVE BoundsOK'
    BY <2>7 DEF Edit
  <2>8. CASE UNCHANGED vars
    BY <2>8 DEF vars
  <2> QED
    BY <2>2, <2>4, <2>5, <2>6, <2>7, <2>8 DEF Next, Make
<1> QED
  BY <1>1, <1>2, Ordered, PTL DEF Spec

(* What the guards of Make's actions ask for, the choices of a recipe's    *)
(* outcome left out.                                                       *)
CanGoOn ==
    \/ /\ make.phase = "read" /\ make.cmd # "dirclean"
       /\ make.jobs = 1 => rms = <<>>
    \/ /\ make.phase \in {"read", "run"} /\ rms # <<>>
       /\ Head(rms) \in Step
    \/ /\ make.phase = "read" /\ rms # <<>>
       /\ Head(rms) \in {"per-package", "build"}
    \/ \E n \in todo : Runnable(n[1], n[2])
    \/ make.phase \in {"run", "stop"} /\ running # {}
    \/ make.phase = "run" /\ todo = {} /\ rms = <<>>
    \/ make.phase = "stop" /\ running = {}

(* A run of make that has not ended can go on: no two packages or steps    *)
(* wait for each other, and no job is lost                                 *)
(* (package/pkg-generic.mk:886-994).                                       *)
THEOREM NeverStuck == Spec => [](~Idle => CanGoOn)
<1>1. OrderInv /\ BoundsOK => (~Idle => CanGoOn)
  <2> SUFFICES ASSUME OrderInv, BoundsOK, ~Idle PROVE CanGoOn
    OBVIOUS
  <2> USE DEF OrderInv, BoundsOK
  <2>1. make.phase \in {"read", "run", "stop"} /\ make.jobs \in Nat
    BY DEF MakeOK, Idle
  <2>2. ASSUME rms # <<>>, make.cmd \in Helper PROVE Head(rms) \in Step
    BY <2>2 DEF RmsOK
  <2>3. rms # <<>> => make.cmd \in Helper \cup {"dirclean"}
    BY DEF RmsOK, MakeOK, Command
  <2>4. CASE make.phase = "read"
    <3>1. CASE make.cmd = "dirclean"
      BY <2>4, <3>1 DEF RmsOK, CanGoOn
    <3>2. CASE make.cmd # "dirclean"
      BY <2>2, <2>3, <2>4, <3>2 DEF CanGoOn
    <3> QED
      BY <3>1, <3>2
  <2>5. CASE make.phase = "run"
    <3>1. CASE rms # <<>>
      <4>1. make.cmd \in Helper
        BY <2>3, <2>5, <3>1 DEF MakeOK, Under
      <4> QED
        BY <2>2, <2>5, <3>1, <4>1 DEF CanGoOn
    <3>2. CASE rms = <<>> /\ running = {} /\ todo # {}
      <4>1. PICK n \in todo : Reach[n[1]][n[2]] \cap todo = {}
        BY <3>2, FirstToMake DEF TodoOK, Goal
      <4>2. n = <<n[1], n[2]>>
        BY DEF TodoOK, Goal, Node
      <4>3. Cardinality(running) = 0
        BY <3>2, FS_EmptySet
      <4>4. Runnable(n[1], n[2])
        BY <2>1, <2>5, <3>2, <4>1, <4>2, <4>3 DEF Runnable
      <4> QED
        BY <4>4 DEF CanGoOn
    <3> QED
      BY <2>5, <3>1, <3>2 DEF CanGoOn
  <2>6. CASE make.phase = "stop"
    BY <2>6 DEF CanGoOn
  <2> QED
    BY <2>1, <2>4, <2>5, <2>6
<1> QED
  BY <1>1, Ordered, Bounded, PTL

-----------------------------------------------------------------------------
(* Every run ends.  Left counts what make has still to do: a removal is    *)
(* one step, a recipe two, its start and its end; after an error only the  *)
(* recipes that run are left.                                              *)

Left ==
    CASE make.phase = "read" -> 3 + Len(rms) + 2 * Cardinality(Node)
      [] make.phase = "run" -> 2 + Len(rms) + Cardinality(todo) + Cardinality(todo \ running)
      [] make.phase = "stop" -> 1 + Cardinality(running)
      [] OTHER -> 0

(* make goes on until the run ends: what WF_vars(Make) says of a run that  *)
(* is never stuck.                                                         *)
Scheduled == []<>Idle \/ []<><<Make>>_vars


LEMMA SizesAreFinite ==
    ASSUME OrderInv
    PROVE  /\ IsFiniteSet(Node) /\ Cardinality(Node) \in Nat
           /\ IsFiniteSet(todo) /\ Cardinality(todo) \in 0 .. Cardinality(Node)
           /\ IsFiniteSet(todo \ running) /\ Cardinality(todo \ running) \in 0 .. Cardinality(Node)
           /\ IsFiniteSet(running) /\ Cardinality(running) \in 0 .. Cardinality(todo)
           /\ Len(rms) \in Nat
<1>1. todo \in SUBSET Node /\ todo \ running \in SUBSET Node /\ running \in SUBSET todo
  BY DEF OrderInv, TodoOK, Goal
<1>2. IsFiniteSet(Node) /\ IsFiniteSet(todo) /\ IsFiniteSet(todo \ running) /\ IsFiniteSet(running)
  BY <1>1, NodesAreFinite, FS_Subset
<1>3. /\ Cardinality(todo) <= Cardinality(Node) /\ Cardinality(todo \ running) <= Cardinality(Node)
      /\ Cardinality(running) <= Cardinality(todo)
  BY <1>1, <1>2, FS_Subset
<1>4. /\ Cardinality(Node) \in Nat /\ Cardinality(todo) \in Nat
      /\ Cardinality(todo \ running) \in Nat /\ Cardinality(running) \in Nat
  BY <1>2, FS_CardinalityType
<1>5. Len(rms) \in Nat
  BY DEF OrderInv, RmsOK, MakeOK, Idle, Command
<1> QED
  BY <1>2, <1>3, <1>4, <1>5

LEMMA LeftType ==
    ASSUME OrderInv, BoundsOK
    PROVE  /\ Left \in Nat
           /\ Left = 0 <=> Idle
           /\ Left <= 11 + 2 * Cardinality(Node)
<1>1. make.phase \in {"ok", "failed", "read", "run", "stop"} /\ Len(rms) <= 8
  BY DEF OrderInv, MakeOK, BoundsOK
<1>2. /\ Cardinality(Node) \in Nat /\ Cardinality(todo) \in 0 .. Cardinality(Node)
      /\ Cardinality(todo \ running) \in 0 .. Cardinality(Node)
      /\ Cardinality(running) \in 0 .. Cardinality(todo) /\ Len(rms) \in Nat
  BY SizesAreFinite
<1>3. CASE make.phase = "read"
  BY <1>1, <1>2, <1>3 DEF Left, Idle
<1>4. CASE make.phase = "run"
  BY <1>1, <1>2, <1>4 DEF Left, Idle
<1>5. CASE make.phase = "stop"
  BY <1>1, <1>2, <1>5 DEF Left, Idle
<1>6. CASE Idle
  BY <1>2, <1>6 DEF Left, Idle
<1> QED
  BY <1>1, <1>3, <1>4, <1>5, <1>6 DEF Idle

LEMMA LeftTypeNext ==
    ASSUME OrderInv', BoundsOK'
    PROVE  Left' \in Nat
<1>1. /\ todo' \in SUBSET Node /\ todo' \ running' \in SUBSET Node /\ running' \in SUBSET Node
  BY DEF OrderInv, TodoOK, Goal
<1>2. /\ Cardinality(todo') \in Nat /\ Cardinality(todo' \ running') \in Nat
      /\ Cardinality(running') \in Nat /\ Cardinality(Node) \in Nat
  BY <1>1, NodesAreFinite, FS_Subset, FS_CardinalityType
<1>3. Len(rms') \in Nat
  BY DEF OrderInv, RmsOK, MakeOK, Idle, Command
<1> QED
  BY <1>2, <1>3 DEF Left

(* Every step of make lowers it.                                           *)
LEMMA RemovalLowers ==
    ASSUME OrderInv, RemoveStamp \/ RemoveTree \/ RemoveBuildDir
    PROVE  Left' < Left
<1>1. /\ rms # <<>> /\ ~Idle /\ rms' = Tail(rms) /\ UNCHANGED <<todo, running>>
      /\ make.phase \in {"read", "run"}
      /\ make'.phase \in {"ok", make.phase}
  BY DEF RemoveStamp, RemoveTree, RemoveBuildDir, Idle, OrderInv, MakeOK
<1>2. rms \in Seq(Step) \/ rms \in {<<"build">>, <<"per-package", "build">>}
  BY <1>1 DEF OrderInv, MakeOK, RmsOK, Helper, Command
<1>3. Len(rms) \in Nat /\ Len(rms') = Len(rms) - 1
  BY <1>1, <1>2
<1> QED
  BY <1>1, <1>3, SizesAreFinite DEF Left

LEMMA RecipeLowers ==
    ASSUME OrderInv, NEW n \in todo,
           Start(n[1], n[2]) \/ PrepareFails(n[1], n[2]) \/ Finish(n[1], n[2]) \/ Fail(n[1], n[2])
    PROVE  Left' < Left
<1>1. n \in Node /\ n = <<n[1], n[2]>> /\ Under
  BY DEF OrderInv, TodoOK, Goal, Node
<1>2. CASE Start(n[1], n[2])
  <2>1. /\ UNCHANGED <<make, rms, todo>> /\ make.phase = "run" /\ n \in todo \ running
        /\ running' = running \cup {n}
    BY <1>1, <1>2 DEF Start, Runnable
  <2>2. todo' \ running' = (todo \ running) \ {n}
    BY <2>1
  <2>3. Cardinality(todo' \ running') = Cardinality(todo \ running) - 1
    BY <2>1, <2>2, SizesAreFinite, FS_RemoveElement
  <2> QED
    BY <2>1, <2>3, SizesAreFinite DEF Left
<1>3. CASE PrepareFails(n[1], n[2])
  <2>1. make.phase = "run" /\ make'.phase = "stop" /\ UNCHANGED running
    BY <1>3 DEF PrepareFails, Runnable, OrderInv, MakeOK
  <2> QED
    BY <2>1, SizesAreFinite DEF Left
<1>4. CASE Finish(n[1], n[2])
  <2>1. /\ UNCHANGED <<make, rms>> /\ n \in running
        /\ todo' = todo \ {n} /\ running' = running \ {n}
    BY <1>1, <1>4 DEF Finish
  <2>2. todo' \ running' = todo \ running
    BY <2>1 DEF OrderInv, TodoOK
  <2>3. Cardinality(todo') = Cardinality(todo) - 1 /\ Cardinality(running') = Cardinality(running) - 1
    BY <2>1, SizesAreFinite, FS_RemoveElement
  <2>4. /\ Cardinality(todo) \in Nat /\ Cardinality(running) \in Nat
        /\ Cardinality(todo \ running) \in Nat /\ Len(rms) \in Nat
    BY SizesAreFinite
  <2>5. CASE make.phase = "run"
    <3>1. Left' = 2 + Len(rms) + Cardinality(todo') + Cardinality(todo \ running)
      BY <2>1, <2>2, <2>5 DEF Left
    <3> QED
      BY <2>3, <2>4, <2>5, <3>1 DEF Left
  <2>6. CASE make.phase = "stop"
    BY <2>1, <2>3, <2>4, <2>6 DEF Left
  <2> QED
    BY <1>1, <2>5, <2>6 DEF Under
<1>5. CASE Fail(n[1], n[2])
  <2>1. /\ make'.phase = "stop" /\ n \in running /\ running' = running \ {n}
    BY <1>1, <1>5 DEF Fail, OrderInv, MakeOK
  <2>2. Cardinality(running') = Cardinality(running) - 1
    BY <2>1, SizesAreFinite, FS_RemoveElement
  <2> QED
    BY <1>1, <2>1, <2>2, SizesAreFinite DEF Left, Under
<1> QED
  BY <1>2, <1>3, <1>4, <1>5

LEMMA MakeLowers ==
    ASSUME OrderInv, Make
    PROVE  Left' < Left
<1>1. CASE ReadStamps
  <2>1. /\ make.phase = "read" /\ make'.phase = "run" /\ UNCHANGED <<rms, running>>
        /\ todo' \in SUBSET Node
    BY <1>1 DEF ReadStamps, Outdated, Goal, OrderInv, MakeOK
  <2>2. todo' \ running' \in SUBSET Node
    BY <2>1
  <2>3. /\ Cardinality(todo') \in Nat /\ Cardinality(todo' \ running') \in Nat
        /\ Cardinality(todo') <= Cardinality(Node) /\ Cardinality(todo' \ running') <= Cardinality(Node)
    BY <2>1, <2>2, NodesAreFinite, FS_Subset, FS_CardinalityType
  <2> QED
    BY <2>1, <2>3, SizesAreFinite DEF Left
<1>2. CASE RemoveStamp \/ RemoveTree \/ RemoveBuildDir
  BY <1>2, RemovalLowers
<1>3. CASE Recipe
  BY <1>3, RecipeLowers DEF Recipe
<1>4. CASE Finalize \/ Stop
  <2>1. make.phase \in {"run", "stop"} /\ make'.phase \in {"ok", "failed"}
    BY <1>4 DEF Finalize, Stop, NoRun, OrderInv, MakeOK
  <2> QED
    BY <2>1, SizesAreFinite DEF Left
<1> QED
  BY <1>1, <1>2, <1>3, <1>4 DEF Make

(* Nothing raises it while a run is under way.                             *)
LEMMA OnlyMakeMoves ==
    ASSUME OrderInv, BoundsOK, OrderInv', BoundsOK', [Next]_vars, ~Idle
    PROVE  Left' <= Left
<1>1. CASE Make
  BY <1>1, MakeLowers, LeftType, LeftTypeNext
<1>2. CASE Interrupt
  <2>1. Left' = 0
    BY <1>2 DEF Interrupt, NoRun, Left
  <2> QED
    BY <2>1, LeftType
<1>3. CASE UNCHANGED vars
  <2>1. Left' = Left
    BY <1>3 DEF vars, Left
  <2> QED
    BY <2>1, LeftType
<1>4. /\ \A p \in Package : ~Edit(p)
      /\ \A cmd \in Command, p \in Tree, jobs \in 1 .. MaxJobs : ~Run(cmd, p, jobs)
  BY DEF Edit, Run
<1> QED
  BY <1>1, <1>2, <1>3, <1>4 DEF Next

(* n steps fewer: a run that has at most j + n of them left comes to have  *)
(* at most j left.                                                         *)
Lowers(j, n) == Left <= j + n ~> Left <= j

LEMMA OneStage ==
    ASSUME NEW j \in Nat
    PROVE  Spec /\ Scheduled => Lowers(j, 1)
<1> DEFINE Inv == OrderInv /\ BoundsOK
<1>1. Inv /\ Inv' /\ Left <= j + 1 /\ [Next]_vars => (Left <= j + 1)' \/ Left <= j
  <2> SUFFICES ASSUME Inv, Inv', Left <= j + 1, [Next]_vars, ~(Left <= j)
               PROVE  Left' <= j + 1
    OBVIOUS
  <2>1. ~Idle
    BY LeftType
  <2>2. Left' <= Left /\ Left \in Nat /\ Left' \in Nat
    BY <2>1, OnlyMakeMoves, LeftType, LeftTypeNext
  <2> QED
    BY <2>2
<1>2. Inv /\ Inv' /\ Left <= j + 1 /\ <<Make>>_vars => (Left <= j)'
  <2> SUFFICES ASSUME Inv, Inv', Left <= j + 1, Make
               PROVE  Left' <= j
    OBVIOUS
  <2>1. Left' < Left /\ Left \in Nat /\ Left' \in Nat
    BY MakeLowers, LeftType, LeftTypeNext
  <2> QED
    BY <2>1
<1>3. Inv /\ Idle => Left <= j
  BY LeftType
<1> QED
  BY <1>1, <1>2, <1>3, Ordered, Bounded, PTL DEF Spec, Scheduled, Lowers

LEMMA AddStages ==
    ASSUME NEW j \in Nat, NEW a \in Nat, NEW b \in Nat, NEW c \in Nat, c = a + b
    PROVE  Spec /\ Lowers(j, a) /\ Lowers(j + a, b) => Lowers(j, c)
<1>1. OrderInv /\ BoundsOK /\ Left <= j + c => Left <= (j + a) + b
  BY LeftType
<1> QED
  BY <1>1, Ordered, Bounded, PTL DEF Lowers

(* A run of make ends, when make goes on: however the packages depend on   *)
(* each other, with how many jobs, and whatever fails; for a billion of    *)
(* steps at most, which is 400 million stamps                              *)
(* (package/pkg-generic.mk:184-407, 886-994).                              *)
THEOREM RunsEnd ==
    ASSUME Cardinality(Node) <= 400000000
    PROVE  Spec /\ Scheduled => EveryRunEnds
<1> DEFINE All(n) == \A j \in Nat : Spec /\ Scheduled => Lowers(j, n)
<1>1. ASSUME NEW a \in Nat, NEW b \in Nat, NEW c \in Nat, c = a + b
      PROVE  All(a) /\ All(b) => All(c)
  <2>1. \A j \in Nat : j + a \in Nat
    OBVIOUS
  <2> QED
    BY <1>1, <2>1, AddStages
<1>2. ASSUME NEW n \in Nat, NEW m \in Nat, m = 10 * n
      PROVE  All(n) => All(m)
  <2>1. /\ 2 * n \in Nat /\ 4 * n \in Nat /\ 5 * n \in Nat
        /\ 2 * n = n + n /\ 4 * n = 2 * n + 2 * n /\ 5 * n = 4 * n + n /\ m = 5 * n + 5 * n
    BY <1>2
  <2>2. All(n) => All(2 * n)
    BY <1>1, <2>1
  <2>3. All(2 * n) => All(4 * n)
    BY <1>1, <2>1
  <2>4. All(4 * n) /\ All(n) => All(5 * n)
    BY <1>1, <2>1
  <2>5. All(5 * n) => All(m)
    BY <1>1, <2>1
  <2> QED
    BY <2>2, <2>3, <2>4, <2>5
<1>3. All(1)
  BY OneStage
<1>4. All(1000000000)
  <2>1. /\ 10 = 10 * 1 /\ 100 = 10 * 10 /\ 1000 = 10 * 100 /\ 10000 = 10 * 1000
        /\ 100000 = 10 * 10000 /\ 1000000 = 10 * 100000 /\ 10000000 = 10 * 1000000
        /\ 100000000 = 10 * 10000000 /\ 1000000000 = 10 * 100000000
        /\ {1, 10, 100, 1000, 10000, 100000, 1000000, 10000000, 100000000, 1000000000} \subseteq Nat
    BY SMT
  <2>2. All(1000)
    BY <1>2, <1>3, <2>1, SMT
  <2>3. All(1000000)
    BY <1>2, <2>1, <2>2, SMT
  <2> QED
    BY <1>2, <2>1, <2>3, SMT
<1>5. Spec /\ Scheduled => Lowers(0, 1000000000)
  BY <1>4, SMT
<1>6. OrderInv /\ BoundsOK => Left <= 0 + 1000000000 /\ (Left <= 0 => Idle)
  BY LeftType, SizesAreFinite, SMT
<1> QED
  BY <1>5, <1>6, Ordered, Bounded, PTL DEF Lowers, EveryRunEnds

(* The same of FairSpec, for a make that can take a step whenever the run  *)
(* has not ended.                                                          *)
THEOREM FairRunsEnd ==
    ASSUME Cardinality(Node) <= 400000000
    PROVE  FairSpec /\ [](~Idle => ENABLED <<Make>>_vars) => EveryRunEnds
<1>1. FairSpec /\ [](~Idle => ENABLED <<Make>>_vars) => Scheduled
  BY PTL DEF FairSpec, Scheduled
<1> QED
  BY <1>1, RunsEnd, PTL DEF FairSpec

=============================================================================
