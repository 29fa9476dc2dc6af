--------------------------- MODULE MCPackageBuild ---------------------------
(***************************************************************************)
(* A host tool; a library that is built with it; a program that uses the   *)
(* library and is extracted with the tool.                                 *)
(***************************************************************************)
EXTENDS PackageBuild

CONSTANTS app, lib, tool

MCPackage == {app, lib, tool}
MCOrder == <<tool, lib, app>>
MCKinds == [p \in MCPackage |->
    CASE p = tool -> {"host"}
      [] p = lib -> {"staging", "target"}
      [] OTHER -> {"target"}]
MCDeps == [p \in MCPackage |-> [s \in Preparing |->
    CASE p = app /\ s = "extracted" -> {tool}
      [] p = app /\ s = "configured" -> {lib}
      [] p = lib /\ s = "configured" -> {tool}
      [] OTHER -> {}]]

(* The tree is empty, or `make all' has built it.                          *)
Built ==
    /\ ppd \in BOOLEAN
    /\ stamps = Node
    /\ old = {}
    /\ ext = [p \in Package |-> IF p \in Override THEN Pristine ELSE Absent]
    /\ work = [p \in Package |-> Pristine]
    /\ obj = work
    /\ tree = [t \in Tree |-> [d \in Dir |-> [p \in Package |->
            IF /\ Installing(p, d) # {}
               /\ t = Global \/ (ppd /\ p \in Closure[t] \cup {t})
            THEN Pristine ELSE Absent]]]
    /\ before = {}
    /\ since = [p \in Package |-> {}]
    /\ listed = [p \in Package |-> {p} \cap {q \in Package : "target" \in Kinds[q]}]
    /\ make = [cmd |-> "all", pkg |-> Global, jobs |-> 1, phase |-> "ok"]
    /\ rms = <<>>
    /\ todo = {}
    /\ running = {}
    /\ torn = FALSE
    /\ runs = 0
    /\ edits = 0
    /\ faults = 0

MCSpec == (Init \/ Built) /\ [][Next]_vars /\ WF_vars(Make)


=============================================================================
